---- MODULE Spec2Model ----
(***************************************************************************)
(* Auto-Analyst backend: the plan / execute / repair pipeline.             *)
(*                                                                         *)
(*   SpecExec   - auto_analyst.execute_plan (src/agents/agents.py) driven  *)
(*                by _generate_streaming_responses (app.py)                *)
(*   SpecRepair - fix_code_with_dspy / identify_error_blocks               *)
(*                (src/routes/code_routes.py)                              *)
(*   SpecSession  - AppState and its session store (app.py)                *)
(*   SpecCall     - get_plan and _estimate_tokens as functions             *)
(*   SpecExecFair - SpecExec for one user, with the event loop's fairness  *)
(*   SpecPair     - two /chat requests on one session (app.py)             *)
(*                                                                         *)
(* Text is modelled as a sequence of tokens.  A plan text is a sequence of *)
(* the tokens "Plan", ":", " ", "->" and name letters; a step name is the  *)
(* sequence of tokens between two arrows.  A script is a sequence of       *)
(* lines.                                                                  *)
(***************************************************************************)
EXTENDS Integers, Sequences, FiniteSets, TLC

VARIABLES
    \* ---- inputs of one streaming request
    plan,            \* the planner's response: [plan, plan_instructions]
    agent_inputs,    \* auto_analyst.agent_inputs: step name -> set of parameters
    plannerOutcome,  \* what awaiting get_plan produced
    \* ---- auto_analyst.execute_plan
    epPc,            \* position of the execute_plan generator
    futures,         \* the (agent_name, inputs, future) list, in plan order
    completed,       \* indices of futures in the order their workers finished
    yielded,         \* tuples execute_plan has yielded so far
    \* ---- _generate_streaming_responses
    streamPc,        \* position of the streaming generator
    events,          \* events sent to the client so far
    session_state,   \* the request's session: user_id, chat_id (0: None)
    dbMode,          \* how the usage database behaves during the request
    usage_records,   \* the usage records collected for the batch write
    db,              \* the usage table: rows written, writes attempted
    \* ---- fix_code_with_dspy
    code,            \* the combined script (sequence of lines)
    error,           \* the error output (sequence of error sections)
    fixPc,           \* position of fix_code_with_dspy
    faulty_blocks,   \* result of identify_error_blocks
    blockIdx,        \* index of the faulty block being fixed
    result_code,     \* the script being rewritten
    fixCalls,        \* calls made to the fix capability: faulty_code, output
    returned,        \* the value fix_code_with_dspy returned
    \* ---- the /fix route
    fixResponse,     \* the body fix_code answers with
    \* ---- AppState and its SessionManager
    sessions,        \* session id -> reference of its live record (0: none)
    records,         \* every session record made so far, by reference
    configs,         \* every model configuration object, by reference
    held,            \* the record each running chat request got from
                     \* get_session_state (0: the request is not running)
    \* ---- one call of get_plan, one call of _estimate_tokens
    goal,            \* the query get_plan is called with (a sequence of words)
    planned,         \* what get_plan returned, and the planner calls it made
    texts,           \* the tokenizer and the two texts of _estimate_tokens
    estimate,        \* what _estimate_tokens returned
    \* ---- two /chat requests on one session
    reqs,            \* each request: its query parameters, query and plan,
                     \* its position, and the futures, tuples and usage
                     \* records of its generators
    sess             \* the session dict both requests hold: chat_id, user_id

execVars == <<plan, agent_inputs, plannerOutcome, epPc, futures, completed,
              yielded, streamPc, events, session_state, dbMode, usage_records,
              db>>
repairVars == <<code, error, fixPc, faulty_blocks, blockIdx, result_code,
                fixCalls, returned, fixResponse>>

sessionVars == <<sessions, records, configs, held>>

callVars == <<goal, planned, texts, estimate>>

pairVars == <<reqs, sess>>

\* what an action of the streaming request leaves alone
nonExecVars == <<repairVars, sessionVars, callVars, pairVars>>

\* what an action of the repair leaves alone
nonRepairVars == <<execVars, sessionVars, callVars, pairVars>>

\* what an action on the sessions leaves alone
nonSessionVars == <<execVars, repairVars, callVars, pairVars>>

\* what a call of get_plan or _estimate_tokens leaves alone
nonCallVars == <<execVars, repairVars, sessionVars, pairVars>>

\* what a step of the two requests leaves alone
nonPairVars == <<execVars, repairVars, sessionVars, callVars>>

vars == <<plan, agent_inputs, plannerOutcome, epPc, futures, completed,
          yielded, streamPc, events, session_state, dbMode, usage_records, db,
          code, error, fixPc, faulty_blocks,
          blockIdx, result_code, fixCalls, returned, fixResponse, sessions,
          records, configs, held, goal, planned, texts, estimate, reqs, sess>>

----------------------------------------------------------------------------
(* Bounds of the model *)

\* longest plan (number of steps) the planner is made to name
MaxSteps == 2

\* longest combined script, in segments (a marked region, a line of text)
MaxSegments == 2

\* longest error output, in tokens (a section with its message, a run of text)
MaxErrTokens == 3

\* number of session records made in one run
MaxRecords == 2

\* longest query given to get_plan, in words
MaxGoalWords == 4

\* longest text given to _estimate_tokens, in characters
MaxTextLen == 3

----------------------------------------------------------------------------
(* Generic sequence helpers *)

Last(s) == s[Len(s)]

Front(s) == SubSeq(s, 1, Len(s) - 1)

RECURSIVE Concat(_)
\* ''.join(list of sequences)
Concat(ss) == IF ss = <<>> THEN <<>> ELSE Head(ss) \o Concat(Tail(ss))

SeqRange(s) == {s[i] : i \in 1..Len(s)}

----------------------------------------------------------------------------
(* Plan text: str.replace / str.strip / str.split on token sequences *)

\* str.replace(tok, ""): every occurrence of the token is removed
RemoveTok(s, tok) == SelectSeq(s, LAMBDA x : x # tok)

RECURSIVE LStrip(_)
LStrip(s) == IF s # <<>> /\ Head(s) = " " THEN LStrip(Tail(s)) ELSE s

RECURSIVE RStrip(_)
RStrip(s) == IF s # <<>> /\ Last(s) = " " THEN RStrip(Front(s)) ELSE s

\* str.strip()
Strip(s) == RStrip(LStrip(s))

RECURSIVE SplitAt(_, _, _)
\* str.split(sep): the pieces between separators, empty pieces included;
\* cur is the piece being read
SplitAt(s, sep, cur) ==
    IF s = <<>> THEN <<cur>>
    ELSE IF Head(s) = sep THEN <<cur>> \o SplitAt(Tail(s), sep, <<>>)
    ELSE SplitAt(Tail(s), sep, Append(cur, Head(s)))

Split(s, sep) == SplitAt(s, sep, <<>>)

\* plan.get("plan", "").replace("Plan", "").replace(":", "").strip()
PlanText(p) ==
    Strip(RemoveTok(RemoveTok(IF "plan" \in DOMAIN p THEN p.plan ELSE <<>>,
                              "Plan"), ":"))

StripAll(pieces) == [i \in 1..Len(pieces) |-> Strip(pieces[i])]

\* PlanList without its filter: the empty pieces stay in the list
PlanListKeepsEmpty(p) == StripAll(Split(PlanText(p), "->"))

\* [agent.strip() for agent in plan_text.split("->") if agent.strip()]
PlanList(p) ==
    SelectSeq(StripAll(Split(PlanText(p), "->")), LAMBDA a : a # <<>>)

----------------------------------------------------------------------------
(* Inputs of a streaming request *)

\* step names the planner may write
AgentNames == {<<"a">>, <<"b">>}

\* the shared bundle dict_ assembled by execute_plan
SharedKeys == {"dataset", "styling_index", "hint", "goal"}

\* agent_inputs as auto_analyst.__init__ leaves it
RegEmpty == <<>>

\* agent_inputs when a caller has registered the step signatures: every
\* step consumes plan_instructions
RegFull ==
    (<<"a">> :> {"dataset", "goal", "plan_instructions"})
    @@ (<<"b">> :> {"dataset", "goal", "plan_instructions"})

\* b does not consume plan_instructions
RegMixed ==
    (<<"a">> :> {"dataset", "goal", "plan_instructions"})
    @@ (<<"b">> :> {"dataset", "goal", "hint"})

\* b has no input signature
RegPartial == (<<"a">> :> {"dataset", "goal", "plan_instructions"})

Registries == {RegEmpty, RegFull, RegMixed, RegPartial}

EntryA ==
    [create |-> <<"df_a">>, use |-> <<"df">>, instruction |-> "rationale a"]

EntryB ==
    [create |-> <<"fig_b">>, use |-> <<"df_a">>, instruction |-> "rationale b"]

\* the instruction payloads the planner may attach (native mappings)
InstrMaps ==
    { <<>>,
      (<<"a">> :> EntryA),
      (<<"a">> :> EntryA) @@ (<<"b">> :> EntryB) }

StepSeqs == UNION {[1..n -> AgentNames] : n \in 0..MaxSteps}

Arrow == <<" ", "->", " ">>

RECURSIVE JoinSteps(_)
\* " -> ".join(steps)
JoinSteps(ss) ==
    IF ss = <<>> THEN <<>>
    ELSE IF Len(ss) = 1 THEN Head(ss)
    ELSE Head(ss) \o Arrow \o JoinSteps(Tail(ss))

\* the ways the planner writes a step sequence: bare, after "Plan: ", and
\* after "Plan: " with a dangling arrow
PlanTexts ==
    UNION { { JoinSteps(ss),
              <<"Plan", ":", " ">> \o JoinSteps(ss),
              <<"Plan", ":", " ">> \o JoinSteps(ss) \o Arrow } : ss \in StepSeqs }

\* the shapes the instruction payload arrives in: a native mapping, a JSON
\* string of a mapping, a JSON string of a list, a string that is not JSON,
\* and a list
InstrPayloads ==
    {[kind |-> "dict", value |-> m] : m \in InstrMaps}
    \cup {[kind |-> "json", value |-> (<<"a">> :> EntryA) @@ (<<"b">> :> EntryB)],
          [kind |-> "json_list", value |-> <<>>],
          [kind |-> "bad_json", value |-> <<>>],
          [kind |-> "list", value |-> <<>>]}

\* the planner's responses: a step sequence as the planner writes it, a
\* text that is no step sequence, and a response without the "plan" field
Plans ==
    [plan : PlanTexts \cup {<<"?">>}, plan_instructions : InstrPayloads]
    \cup {[plan_instructions |-> [kind |-> "dict", value |-> <<>>]]}

\* the session and the usage database of a request: user and chat 1 exist,
\* 2 are dangling; the database works, its session factory raises, or its
\* commit raises
UsageCases ==
    {[user_id |-> 0, chat_id |-> 0, db |-> "ok"],
     [user_id |-> 1, chat_id |-> 0, db |-> "ok"],
     [user_id |-> 1, chat_id |-> 1, db |-> "ok"],
     [user_id |-> 2, chat_id |-> 2, db |-> "ok"],
     [user_id |-> 1, chat_id |-> 1, db |-> "factory"],
     [user_id |-> 1, chat_id |-> 1, db |-> "commit"]}

\* what awaiting get_plan can produce
PlannerOutcomes == {"ok", "invalid_query", "timeout", "raised"}

\* what one step invocation can produce: a result, a result the formatter
\* renders as the invalid-query message, or an exception
StepOutcomes == {"ok", "invalid_query", "raised"}

----------------------------------------------------------------------------
(* auto_analyst.execute_plan: building one step's inputs *)

\* plan_instructions as execute_plan parses it from the payload: a string
\* is replaced by what json.loads makes of it, whatever that is, or by {}
\* when it does not decode; a dict is taken as it is; anything else is {}
PlanInstructions(p) ==
    LET raw == p.plan_instructions
    IN  CASE raw.kind \in {"dict", "json"} -> [is_dict |-> TRUE, value |-> raw.value]
          [] raw.kind = "json_list" -> [is_dict |-> FALSE, value |-> <<>>]
          [] OTHER -> [is_dict |-> TRUE, value |-> <<>>]

DefaultEntry == [create |-> <<>>, use |-> <<>>, instruction |-> ""]

\* plan_instructions.get(key, {"create": [], "use": [], "instruction": ""})
CurrentInstructions(instr, key) ==
    IF key \in DOMAIN instr THEN instr[key] ELSE DefaultEntry

\* plan_instructions.get(agent, {}).get("instruction", "")
Rationale(instr, agent) ==
    IF agent \in DOMAIN instr /\ "instruction" \in DOMAIN instr[agent]
    THEN instr[agent].instruction
    ELSE ""

\* FormattedInstructions with the two neighbours' rationales exchanged
FormattedInstructionsSwapped(plan_list, instr, idx) ==
    LET yourTask == (<<"your_task">> :> CurrentInstructions(instr, plan_list[idx]))
        prev == IF idx > 1
                THEN (<<"Previous Agent ">> \o plan_list[idx - 1])
                         :> Rationale(instr, plan_list[idx])
                ELSE <<>>
        next == IF idx < Len(plan_list)
                THEN (<<"Next Agent ">> \o plan_list[idx + 1])
                         :> Rationale(instr, plan_list[idx])
                ELSE <<>>
    IN  yourTask @@ prev @@ next

\* formatted_instructions of the step at (1-based) position idx
FormattedInstructions(plan_list, instr, idx) ==
    LET yourTask == (<<"your_task">> :> CurrentInstructions(instr, plan_list[idx]))
        prev == IF idx > 1
                THEN (<<"Previous Agent ">> \o plan_list[idx - 1])
                         :> Rationale(instr, plan_list[idx - 1])
                ELSE <<>>
        next == IF idx < Len(plan_list)
                THEN (<<"Next Agent ">> \o plan_list[idx + 1])
                         :> Rationale(instr, plan_list[idx + 1])
                ELSE <<>>
    IN  yourTask @@ prev @@ next

\* self.agent_inputs[key] or dict_[param] raises KeyError, or
\* plan_instructions.get raises AttributeError on what is not a dict
SubmitRaises(reg, key, instr) ==
    \/ key \notin DOMAIN reg
    \/ \E param \in reg[key] :
          param # "plan_instructions" /\ param \notin SharedKeys
    \/ "plan_instructions" \in reg[key] /\ ~instr.is_dict

\* the inputs dict of the step at position idx
BuildInputs(plan_list, instr, reg, idx) ==
    LET key == plan_list[idx]
        shared == [param \in reg[key] \ {"plan_instructions"} |-> <<"dict_", param>>]
    IN  IF "plan_instructions" \in reg[key]
        THEN shared @@ ("plan_instructions" :> FormattedInstructions(plan_list, instr, idx))
        ELSE shared

\* ExecuteAgent whose except clause returns an empty result
ExecuteAgentDropsError(agent_name, outcome) ==
    [name   |-> Strip(agent_name),
     result |-> CASE outcome = "raised" -> <<>>
                  [] outcome = "invalid_query" -> [code |-> "", summary |-> "invalid query"]
                  [] OTHER -> [code |-> "generated code", summary |-> "summary"]]

\* execute_agent: the invocation's exception becomes an error result
ExecuteAgent(agent_name, outcome) ==
    [name   |-> Strip(agent_name),
     result |-> CASE outcome = "raised" -> [error |-> "exception text"]
                  [] outcome = "invalid_query" -> [code |-> "", summary |-> "invalid query"]
                  [] OTHER -> [code |-> "generated code", summary |-> "summary"]]

\* the generator's position after yielding the tuple of future idx of n
AfterYield(idx, n) == IF idx < n THEN "yield" ELSE "done"

----------------------------------------------------------------------------
(* _generate_streaming_responses: the events *)

RESPONSE_ERROR_INVALID_QUERY == "Please provide a valid query..."

\* format_response_to_markdown({agent_name: response}) or "No response generated"
FormatResponse(response) ==
    IF "summary" \in DOMAIN response /\ response.summary = "invalid query"
    THEN RESPONSE_ERROR_INVALID_QUERY
    ELSE IF "error" \in DOMAIN response THEN "error markdown"
    ELSE "response markdown"

\* agent_name.split("__")[0] if "__" in agent_name else agent_name
EventAgent(agent_name) ==
    IF "__" \in SeqRange(agent_name) THEN Split(agent_name, "__")[1] ELSE agent_name

PlanEvent ==
    [agent |-> <<"Analytical Planner">>, content |-> "plan description",
     status |-> "success"]

InvalidPlanEvent ==
    [agent |-> <<"Analytical Planner">>, content |-> RESPONSE_ERROR_INVALID_QUERY,
     status |-> "error"]

NoPlanEvent ==
    [agent |-> <<"Analytical Planner">>, content |-> "**No plan found**",
     status |-> "error"]

TimeoutEvent ==
    [agent |-> <<"planner">>, content |-> "The request timed out.",
     status |-> "error"]

GenericErrorEvent ==
    [agent |-> <<"planner">>, content |-> "An error occurred while generating responses.",
     status |-> "error"]

\* the event for one (agent_name, inputs, response) tuple
StepEvent(agent_name, response) ==
    IF FormatResponse(response) = RESPONSE_ERROR_INVALID_QUERY
    THEN [agent |-> agent_name, content |-> RESPONSE_ERROR_INVALID_QUERY,
          status |-> "error"]
    ELSE [agent |-> EventAgent(agent_name), content |-> FormatResponse(response),
          status |-> IF DOMAIN response # {} THEN "success" ELSE "error"]

\* the event for the tuple _execute_plan_with_timeout yields when
\* execute_plan raises
WrapperErrorEvent == StepEvent(<<"error">>, [error |-> "An error occurred during plan execution"])

----------------------------------------------------------------------------
(* The streaming request: state and actions *)

\* neither get_plan nor _estimate_tokens is being called, and the pair of
\* requests is not running
CallIdle ==
    /\ reqs = <<>>
    /\ sess = [chat_id |-> 0, user_id |-> 0]
    /\ goal = <<>>
    /\ planned = [calls |-> 0, plan |-> <<>>]
    /\ texts = [tokenizer |-> "none", input_text |-> <<>>,
                output_text |-> <<>>, called |-> FALSE]
    /\ estimate = [prompt |-> 0, completion |-> 0, total |-> 0]

\* session ids the clients send
SessionIds == {"s1", "s2"}

\* two chat requests that may run at the same time
Requests == {"r1", "r2"}

\* DEFAULT_MODEL_CONFIG, as a value
DEFAULT_MODEL_CONFIG == [provider |-> "openai", model |-> "gpt-4o-mini"]

\* reference of the process-wide DEFAULT_MODEL_CONFIG object
DefaultConfigRef == 1

\* reference of AppState.model_config, which is what the SessionManager is
\* given as _app_model_config
AppConfigRef == 2

\* AppState.__init__: self.model_config = DEFAULT_MODEL_CONFIG.copy(), a
\* second object with the value of the first
AppStateConfigs == <<DEFAULT_MODEL_CONFIG, DEFAULT_MODEL_CONFIG>>

\* no request has come: the state after app.state = AppState()
SessionIdle ==
    /\ sessions = [s \in SessionIds |-> 0]
    /\ records = <<>>
    /\ configs = AppStateConfigs
    /\ held = [r \in Requests |-> 0]

\* fix_code has not answered
NoResponse == [kind |-> "none"]

\* fix_code_with_dspy is not running
RepairIdle ==
    /\ code = <<>>
    /\ error = <<>>
    /\ fixPc = "idle"
    /\ faulty_blocks = <<>>
    /\ blockIdx = 0
    /\ result_code = <<>>
    /\ fixCalls = <<>>
    /\ returned = <<>>
    /\ fixResponse = NoResponse

\* the usage table before the batch write
NoWrites == [rows |-> <<>>, attempts |-> 0, raised |-> FALSE]

\* a record without linkage
CreateUsageRecordUnlinked(ss, is_streaming) ==
    [user_id |-> 0, chat_id |-> 0, is_streaming |-> is_streaming]

\* _create_usage_record: the linkage is the session's, as it is
CreateUsageRecord(ss, is_streaming) ==
    [user_id |-> ss.user_id, chat_id |-> ss.chat_id, is_streaming |-> is_streaming]

\* the usage records after an event: a record is added if the session has
\* a user_id
Track(recs, ss, is_streaming) ==
    IF ss.user_id # 0 THEN Append(recs, CreateUsageRecord(ss, is_streaming)) ELSE recs

\* AI_Manager.save_usage_to_db on one record.  A user or chat that does not
\* exist is stored as None.  A commit that raises is rolled back and
\* logged.  When session_factory raises, the except clause's
\* session.rollback() raises on the unbound name and that exception leaves
\* the method.
SaveUsageToDb(d, rec, mode) ==
    CASE mode = "factory" ->
             [d EXCEPT !.attempts = @ + 1, !.raised = TRUE]
      [] mode = "commit" ->
             [d EXCEPT !.attempts = @ + 1]
      [] OTHER ->
             [d EXCEPT !.attempts = @ + 1,
                       !.rows = Append(@,
                           [rec EXCEPT !.user_id = IF @ = 1 THEN 1 ELSE 0,
                                       !.chat_id = IF @ = 1 THEN 1 ELSE 0])]

RECURSIVE BatchWrite(_, _, _)
\* for record in usage_records: save_usage_to_db(**record), left at the
\* first exception
BatchWrite(d, recs, mode) ==
    IF recs = <<>> \/ d.raised THEN d
    ELSE BatchWrite(SaveUsageToDb(d, Head(recs), mode), Tail(recs), mode)

\* FinishEvents when the exception of a write reaches the generator's outer
\* except clause
FinishEventsSurfacing(evs, d) ==
    IF d.raised \/ d.attempts > Len(d.rows)
    THEN Append(evs, [agent |-> <<"planner">>,
                      content |-> "An error occurred while generating responses.",
                      status |-> "error"])
    ELSE evs

\* the events after the batch write: its except clause logs and sends
\* nothing
FinishEvents(evs, d) == evs

InitExec ==
    /\ plan \in Plans
    /\ agent_inputs \in Registries
    /\ \E uc \in UsageCases :
          /\ session_state = [user_id |-> uc.user_id, chat_id |-> uc.chat_id]
          /\ dbMode = uc.db
    /\ usage_records = <<>>
    /\ db = NoWrites
    /\ plannerOutcome = "none"
    /\ epPc = "idle"
    /\ futures = <<>>
    /\ completed = <<>>
    /\ yielded = <<>>
    /\ streamPc = "start"
    /\ events = <<>>
    /\ RepairIdle
    /\ SessionIdle
    /\ CallIdle

\* the event that follows awaiting get_plan
PlannerEvent(outcome) ==
    CASE outcome = "ok" -> PlanEvent
      [] outcome = "invalid_query" -> InvalidPlanEvent
      [] outcome = "timeout" -> TimeoutEvent
      [] OTHER -> GenericErrorEvent

\* where the streaming generator goes after the planner call: into the
\* plan loop, to its return, or past the except clause to the batch write
AfterPlanner(outcome) ==
    CASE outcome = "ok" -> "executing"
      [] outcome = "raised" -> "finishing"
      [] OTHER -> "ended"

\* await asyncio.wait_for(to_thread(get_plan), timeout) and the planner event
GetPlan ==
    /\ streamPc = "start"
    /\ \E outcome \in PlannerOutcomes :
          /\ plannerOutcome' = outcome
          /\ events' = Append(events, PlannerEvent(outcome))
          /\ streamPc' = AfterPlanner(outcome)
          /\ epPc' = IF outcome = "ok" THEN "parse" ELSE epPc
          /\ usage_records' = IF outcome = "ok"
                              THEN Track(usage_records, session_state, FALSE)
                              ELSE usage_records
    /\ UNCHANGED <<plan, agent_inputs, futures, completed, yielded,
                   session_state, dbMode, db>>
    /\ UNCHANGED nonExecVars

\* a stream that still takes the planner's answer after the timeout
LateEventsDelivered(evs) == Append(evs, PlanEvent)

\* the events after the planner's thread ends past the timeout: wait_for
\* has cancelled the future it awaited and the generator has returned
LateEvents(evs) == evs

\* the thread of asyncio.to_thread(get_plan) is not interrupted by the
\* timeout: it runs on and ends, and nothing takes its result
LatePlanner ==
    /\ plannerOutcome = "timeout"
    /\ plannerOutcome' = "timeout_completed"
    /\ events' = LateEvents(events)
    /\ UNCHANGED <<plan, agent_inputs, epPc, futures, completed, yielded,
                   streamPc, session_state, dbMode, usage_records, db>>
    /\ UNCHANGED nonExecVars

\* ("plan_not_found", dict(plan), {"error": "No plan found"})
Sentinel(p) ==
    [name |-> <<"plan_not_found">>, inputs |-> p,
     result |-> [error |-> "No plan found"], idx |-> 0]

\* execute_plan up to its submit loop; on an empty plan list it yields the
\* sentinel, and the streaming layer answers it with the no-plan event and
\* returns
ParsePlan ==
    /\ epPc = "parse"
    /\ streamPc = "executing"
    /\ IF PlanList(plan) = <<>>
       THEN /\ yielded' = Append(yielded, Sentinel(plan))
            /\ events' = Append(events, NoPlanEvent)
            /\ epPc' = "closed"
            /\ streamPc' = "ended"
       ELSE /\ epPc' = "submit"
            /\ UNCHANGED <<yielded, events, streamPc>>
    /\ UNCHANGED <<plan, agent_inputs, plannerOutcome, futures, completed,
                   session_state, dbMode, usage_records, db>>
    /\ UNCHANGED nonExecVars

\* a submit loop that awaits each invocation before it submits the next
AfterSubmitAwaits(idx, n) == "yield"

\* the generator's position after submitting step idx of n: the result
\* loop is entered when the submit loop has gone through the whole plan
AfterSubmit(idx, n) == IF idx = n THEN "yield" ELSE "submit"

\* one pass of the submit loop: the KeyError of a step without input
\* signature leaves execute_plan, _execute_plan_with_timeout turns it into
\* its "error" tuple, and the plan loop ends
Submit ==
    /\ epPc = "submit"
    /\ LET plan_list == PlanList(plan)
           idx == Len(futures) + 1
       IN  IF SubmitRaises(agent_inputs, plan_list[idx], PlanInstructions(plan))
           THEN /\ epPc' = "raised"
                /\ events' = Append(events, WrapperErrorEvent)
                /\ streamPc' = "finishing"
                /\ usage_records' = Track(usage_records, session_state, TRUE)
                /\ UNCHANGED futures
           ELSE /\ futures' = Append(futures,
                       [agent_name |-> plan_list[idx],
                        inputs |-> BuildInputs(plan_list, PlanInstructions(plan).value,
                                               agent_inputs, idx),
                        status |-> "pending",
                        outcome |-> "none",
                        value |-> <<>>])
                /\ epPc' = AfterSubmit(idx, Len(plan_list))
                /\ UNCHANGED <<events, streamPc, usage_records>>
    /\ UNCHANGED <<plan, agent_inputs, plannerOutcome, completed, yielded,
                   session_state, dbMode, db>>
    /\ UNCHANGED nonExecVars

\* a pool worker runs execute_agent for future i to its end
Worker(i) ==
    /\ futures[i].status = "pending"
    /\ \E outcome \in StepOutcomes :
          futures' = [futures EXCEPT
                         ![i].status = "done",
                         ![i].outcome = outcome,
                         ![i].value = ExecuteAgent(futures[i].agent_name, outcome)]
    /\ completed' = Append(completed, i)
    /\ UNCHANGED <<plan, agent_inputs, plannerOutcome, epPc, yielded, streamPc,
                   events, session_state, dbMode, usage_records, db>>
    /\ UNCHANGED nonExecVars

\* one pass of the result loop: await the next future of the list, yield
\* its tuple, and the streaming layer's handling of that tuple
YieldNext ==
    /\ epPc = "yield"
    /\ streamPc = "executing"
    /\ LET idx == Len(yielded) + 1
           f == futures[idx]
       IN  /\ f.status = "done"
           /\ yielded' = Append(yielded,
                  [name |-> f.value.name, inputs |-> f.inputs,
                   result |-> f.value.result, idx |-> idx])
           /\ events' = Append(events, StepEvent(f.value.name, f.value.result))
           /\ IF FormatResponse(f.value.result) = RESPONSE_ERROR_INVALID_QUERY
              THEN /\ epPc' = "closed"
                   /\ streamPc' = "ended"
                   /\ UNCHANGED usage_records
              ELSE /\ epPc' = AfterYield(idx, Len(futures))
                   /\ streamPc' = IF idx < Len(futures) THEN "executing" ELSE "finishing"
                   /\ usage_records' = Track(usage_records, session_state, TRUE)
    /\ UNCHANGED <<plan, agent_inputs, plannerOutcome, futures, completed,
                   session_state, dbMode, db>>
    /\ UNCHANGED nonExecVars

\* the code after the plan loop, to the end of the stream: the batch write
\* of the usage records, when there are any and the session has a user_id
Finish ==
    /\ streamPc = "finishing"
    /\ streamPc' = "ended"
    /\ db' = IF usage_records # <<>> /\ session_state.user_id # 0
             THEN BatchWrite(db, usage_records, dbMode)
             ELSE db
    /\ events' = FinishEvents(events, db')
    /\ UNCHANGED <<plan, agent_inputs, plannerOutcome, epPc, futures, completed,
                   yielded, session_state, dbMode, usage_records>>
    /\ UNCHANGED nonExecVars

NextExec ==
    \/ GetPlan
    \/ LatePlanner
    \/ ParsePlan
    \/ Submit
    \/ \E i \in 1..Len(futures) : Worker(i)
    \/ YieldNext
    \/ Finish

SpecExec == InitExec /\ [][NextExec]_vars

\* a request of a user with every step signature registered and a native
\* instruction mapping
InitExecFair ==
    /\ InitExec
    /\ agent_inputs = RegFull
    /\ plan.plan_instructions = [kind |-> "dict", value |-> <<>>]
    /\ session_state = [user_id |-> 1, chat_id |-> 1]
    /\ dbMode = "ok"

\* the event loop keeps running the request's coroutine whenever it can go
\* on; nothing makes a pool worker finish
SpecExecFair ==
    /\ InitExecFair
    /\ [][NextExec]_vars
    /\ WF_vars(GetPlan \/ ParsePlan \/ Submit \/ YieldNext \/ Finish)

----------------------------------------------------------------------------
(* Claims about execute_plan and the stream *)

\* number of planned steps of the request
NSteps == Len(PlanList(plan))

\* position of future i in the completion order (0: not completed)
CompletedAt(i) ==
    IF i \in SeqRange(completed)
    THEN CHOOSE k \in 1..Len(completed) : completed[k] = i
    ELSE 0

\* the step tuples execute_plan yielded (the sentinel is not one)
StepTuples == {k \in 1..Len(yielded) : yielded[k].idx > 0}

\* C1: when execute_plan has ended, by exhaustion or by raising, it has
\* yielded exactly N tuples for a plan of N >= 1 steps, and for N = 0
\* exactly the one sentinel tuple.
C1_ExactlyNTuples ==
    /\ (epPc \in {"done", "raised"} /\ NSteps >= 1) => Cardinality(StepTuples) = NSteps
    /\ (epPc \in {"done", "raised", "closed"} /\ NSteps = 0) => yielded = <<Sentinel(plan)>>

\* C2: tuples are yielded in completion order: of two yielded tuples, the
\* one whose worker completed first was yielded first.
C2_CompletionOrder ==
    \A k1 \in StepTuples : \A k2 \in StepTuples :
        CompletedAt(yielded[k2].idx) < CompletedAt(yielded[k1].idx) => k2 < k1

\* C3: a step whose invocation raises becomes an error result of that step
\* only: every yielded tuple carries its own future's result, which holds an
\* error exactly when that invocation raised; a raised step never closes the
\* generator, no submitted future is withdrawn, and when the generator is
\* exhausted every planned step has had its tuple, in plan order.
C3_ErrorsIsolated ==
    /\ \A k \in StepTuples :
          LET f == futures[yielded[k].idx]
          IN  /\ f.status = "done"
              /\ yielded[k].name = Strip(f.agent_name)
              /\ yielded[k].inputs = f.inputs
              /\ ("error" \in DOMAIN yielded[k].result) <=> (f.outcome = "raised")
    /\ (epPc = "closed" /\ StepTuples # {}) =>
          futures[Last(yielded).idx].outcome = "invalid_query"
    /\ epPc \in {"yield", "done", "closed"} => Len(futures) = NSteps
    /\ epPc = "done" => \A i \in 1..NSteps : yielded[i].idx = i

\* C3 happens: a two-step plan ran to exhaustion, the first invocation
\* raised and the second one's result was still yielded.
C3_Witness ==
    /\ epPc = "done"
    /\ NSteps >= 2
    /\ futures[1].outcome = "raised"
    /\ "error" \in DOMAIN yielded[1].result
    /\ "code" \in DOMAIN yielded[2].result

\* C4: a plan text that is empty after removing "Plan", ":" and outer
\* whitespace makes execute_plan yield the sentinel tuple alone and stop,
\* nothing is submitted to the pool, and the stream emits one no-plan error
\* event, as its last event, and ends.
C4_EmptyPlanSentinel ==
    PlanText(plan) = <<>> =>
        /\ futures = <<>>
        /\ epPc \in {"idle", "parse", "closed"}
        /\ epPc = "closed" =>
              /\ yielded = <<Sentinel(plan)>>
              /\ streamPc = "ended"
              /\ Last(events) = NoPlanEvent
              /\ Cardinality({k \in 1..Len(events) : events[k] = NoPlanEvent}) = 1

\* C4 happens: the planner wrote "Plan: " without a step and the stream
\* has ended on the sentinel.
C4_Witness ==
    /\ "plan" \in DOMAIN plan
    /\ plan.plan = <<"Plan", ":", " ">>
    /\ PlanText(plan) = <<>>
    /\ epPc = "closed"
    /\ yielded = <<Sentinel(plan)>>
    /\ streamPc = "ended"

\* the events after the planner's that carry the name of the step agent
EventsOf(agent) ==
    {k \in 2..Len(events) : events[k].agent = EventAgent(agent)}

\* C5: a stream whose planner call produced a plan of N steps does not end
\* before it has sent one event for each of the N steps: each planned name
\* has as many events as the plan has steps of that name.
C5_EveryStepGetsEvent ==
    (streamPc = "ended" /\ plannerOutcome = "ok") =>
        \A agent \in SeqRange(PlanList(plan)) :
            Cardinality(EventsOf(agent)) =
                Cardinality({i \in 1..NSteps : PlanList(plan)[i] = agent})

\* the keys of a composite that name a previous (next) agent
KeysWith(comp, prefix) == {key \in DOMAIN comp : Head(key) = prefix}

\* C6: the composite of the step at position i of N holds your_task = the
\* step's own entry (the empty default without one), a "Previous Agent"
\* entry exactly when i > 1, for plan[i-1] with its rationale, and a "Next
\* Agent" entry exactly when i < N, for plan[i+1] with its rationale.
C6_InstructionComposite ==
    \A i \in 1..Len(futures) :
        LET pl == PlanList(plan)
            instr == PlanInstructions(plan).value
            RationaleOf(a) == IF a \in DOMAIN instr THEN instr[a].instruction ELSE ""
        IN  "plan_instructions" \in agent_inputs[pl[i]] =>
            LET comp == futures[i].inputs["plan_instructions"]
            IN  /\ <<"your_task">> \in DOMAIN comp
                /\ comp[<<"your_task">>] =
                      IF pl[i] \in DOMAIN instr THEN instr[pl[i]]
                      ELSE [create |-> <<>>, use |-> <<>>, instruction |-> ""]
                /\ KeysWith(comp, "Previous Agent ") =
                      IF i > 1 THEN {<<"Previous Agent ">> \o pl[i - 1]} ELSE {}
                /\ KeysWith(comp, "Next Agent ") =
                      IF i < Len(pl) THEN {<<"Next Agent ">> \o pl[i + 1]} ELSE {}
                /\ \A key \in KeysWith(comp, "Previous Agent ") :
                      comp[key] = RationaleOf(pl[i - 1])
                /\ \A key \in KeysWith(comp, "Next Agent ") :
                      comp[key] = RationaleOf(pl[i + 1])
                /\ Cardinality(DOMAIN comp) =
                      1 + (IF i > 1 THEN 1 ELSE 0) + (IF i < Len(pl) THEN 1 ELSE 0)

\* C6 happens: "Plan: a -> b" with instructions for both, each step was
\* given the other as its next / previous context.
C6_Witness ==
    /\ PlanList(plan) = << <<"a">>, <<"b">> >>
    /\ plan.plan_instructions.kind = "dict"
    /\ DOMAIN plan.plan_instructions.value = {<<"a">>, <<"b">>}
    /\ Len(futures) = 2
    /\ futures[1].inputs["plan_instructions"][<<"Next Agent ", "b">>] = "rationale b"
    /\ futures[2].inputs["plan_instructions"][<<"Previous Agent ", "a">>] = "rationale a"

\* the model invocations of the request that came to an end: the planner's
\* and those of the steps
Invocations ==
    (IF plannerOutcome \in {"ok", "invalid_query"} THEN 1 ELSE 0)
    + Cardinality({i \in 1..Len(futures) : futures[i].status = "done"})

\* C15: when the stream has ended and the database works, the usage table
\* holds one row for each model invocation of the request, whatever the
\* session's user_id and chat_id are, and a row's user and chat are None or
\* exist.
C15_UsageForEveryInvocation ==
    (streamPc = "ended" /\ dbMode = "ok") =>
        /\ Len(db.rows) = Invocations
        /\ \A k \in 1..Len(db.rows) :
              db.rows[k].user_id \in {0, 1} /\ db.rows[k].chat_id \in {0, 1}

\* the events of a stream whose planner call gave a plan: the planner's
\* event, one event for each tuple of execute_plan, and the event of the
\* "error" tuple when execute_plan raised
StreamEvents ==
    <<PlanEvent>>
    \o [i \in 1..Len(yielded) |-> StepEvent(yielded[i].name, yielded[i].result)]
    \o (IF epPc = "raised" THEN <<WrapperErrorEvent>> ELSE <<>>)

\* C17: usage is written only when the stream has sent its last event, and
\* whatever the writes did (a row, a rollback, an exception), the events of
\* the stream are the planner's and the steps', with none added.
C17_PersistenceNeverSurfaces ==
    db.attempts > 0 =>
        /\ streamPc = "ended"
        /\ events = StreamEvents
        /\ db.attempts <= Len(usage_records)
        /\ dbMode = "ok" => Len(db.rows) = Len(usage_records)

\* C17 happens: the session factory raised on the first write of a stream
\* of two steps; nothing was written and the three events are there.
C17_Witness ==
    /\ dbMode = "factory"
    /\ db = [rows |-> <<>>, attempts |-> 1, raised |-> TRUE]
    /\ streamPc = "ended"
    /\ Len(usage_records) = 3
    /\ Len(events) = 3
    /\ events[3].status = "success"

\* the planner's response has no step sequence: the field is missing or
\* empty, or names something that is no step
NoStepSequence(p) ==
    \/ PlanList(p) = <<>>
    \/ \E i \in 1..Len(PlanList(p)) : PlanList(p)[i] \notin AgentNames

\* C19: a response without a step sequence makes execute_plan yield the
\* sentinel, and the stream end on the no-plan event.
C19_NoPlanSentinel ==
    (NoStepSequence(plan) /\ plannerOutcome = "ok" /\ streamPc = "ended") =>
        /\ yielded = <<Sentinel(plan)>>
        /\ Last(events) = NoPlanEvent

\* C20: with a payload that is neither a mapping nor the JSON text of one,
\* and a signature for every planned step, every planned step is submitted
\* and its composite holds the empty default instruction.
C20_PayloadDegrades ==
    (/\ plan.plan_instructions.kind \notin {"dict", "json"}
     /\ agent_inputs = RegFull
     /\ ~NoStepSequence(plan)
     /\ epPc \in {"yield", "done", "closed", "raised"}) =>
        /\ Len(futures) = NSteps
        /\ \A i \in 1..Len(futures) :
              futures[i].inputs["plan_instructions"][<<"your_task">>] = DefaultEntry

------------------------------------------------------------\* C22: execute_plan awaits or yields a step's result only when the
\* invocations of all the steps of the plan have been submitted; while it
\* submits, it has yielded nothing.
C22_AllSubmittedFirst ==
    /\ (epPc \in {"yield", "done"} \/ \E k \in 1..Len(yielded) : yielded[k].idx # 0)
          => Len(futures) = Len(PlanList(plan))
    /\ epPc = "submit" => yielded = <<>>

\* C22 happens: both invocations of a two-step plan are in the pool, the
\* second has completed before the first, and nothing has been yielded.
C22_Witness ==
    /\ Len(PlanList(plan)) = 2
    /\ Len(futures) = 2
    /\ futures[1].status = "pending"
    /\ futures[2].status = "done"
    /\ yielded = <<>>
    /\ epPc = "yield"

\* C23: the event streamed for a step whose result carries an error has
\* status "error", and an event has status "success" only for a step whose
\* result carries code and summary.  The event of the k-th tuple follows
\* the planner's event.
C23_FailedStepStatusError ==
    \A k \in StepTuples :
        LET result == yielded[k].result
            event == events[k + 1]
        IN  /\ "error" \in DOMAIN result => event.status = "error"
            /\ event.status = "success" =>
                   {"code", "summary"} \subseteq DOMAIN result

\* C25: when the stream of a request with a bound user has ended after
\* all N steps of its plan were yielded, N + 1 usage records were made, the
\* planner's and then one for each step, and each was submitted to the
\* database once.
C25_OneRecordPerInvocation ==
    (streamPc = "ended" /\ epPc = "done" /\ session_state.user_id # 0) =>
        /\ Len(usage_records) = NSteps + 1
        /\ ~usage_records[1].is_streaming
        /\ \A k \in 2..(NSteps + 1) : usage_records[k].is_streaming
        /\ db.attempts = NSteps + 1

\* C29: when the stream has ended, every usage record it made has been
\* submitted to the database.
C29_AllRecordsSubmitted ==
    streamPc = "ended" => db.attempts = Len(usage_records)

\* C30: the timeout event is the stream's last event: the stream has ended
\* with it, and nothing of the timed-out request is executed, recorded or
\* written, also when the planner's thread has ended since.
C30_NothingAfterTimeout ==
    TimeoutEvent \in SeqRange(events) =>
        /\ events = <<TimeoutEvent>>
        /\ streamPc = "ended"
        /\ plannerOutcome \in {"timeout", "timeout_completed"}
        /\ futures = <<>>
        /\ yielded = <<>>
        /\ usage_records = <<>>
        /\ db = NoWrites

\* C30 happens: the planner's thread ended after the timeout event.
C30_Witness ==
    /\ plannerOutcome = "timeout_completed"
    /\ Last(events) = TimeoutEvent

\* the result loop waits for an invocation that has not completed
AwaitingStep ==
    /\ epPc = "yield"
    /\ streamPc = "executing"
    /\ futures[Len(yielded) + 1].status = "pending"

\* C21: when the stream waits for a step invocation, the invocation
\* completes or, if it never does, the client receives the timeout event.
C21_StepTimeoutReported ==
    AwaitingStep ~> (~AwaitingStep \/ TimeoutEvent \in SeqRange(events))

----------------
(* Combined scripts and error outputs *)

\* "# <n> code start"
StartLine(n) == [t |-> "start", n |-> n]

\* "# <n> code end"
EndLine(n) == [t |-> "end", n |-> n]

\* a line of code
CodeLine(c) == [t |-> "code", n |-> <<c>>]

\* a line holding a code fence, ```python or ```
FenceLine == [t |-> "fence", n |-> <<>>]

\* an empty line
BlankLine == [t |-> "blank", n |-> <<>>]

IsMarker(line) == line.t \in {"start", "end"}

\* a step's region as the code combiner writes it
Region(n) == <<StartLine(n), CodeLine("x"), EndLine(n)>>

\* what a combined script is made of: the regions of steps a, b and ab, a
\* start marker without its end marker, a fence line, a line of unmarked text
Segments ==
    { Region(<<"a">>), Region(<<"b">>), Region(<<"a", "b">>),
      <<StartLine(<<"a">>)>>, <<FenceLine>>, <<CodeLine("x")>> }

Scripts == {Concat(segs) : segs \in UNION {[1..n -> Segments] : n \in 0..MaxSegments}}

\* "=== ERROR IN <n> ===" and the message text after it that holds no "== "
Header(n) == [t |-> "hdr", n |-> n]

\* message text that holds "== " (a comparison in a quoted line of code)
TextEq == [t |-> "txteq", n |-> <<>>]

ErrTokens == {Header(<<"A">>), Header(<<"B", "_AGENT">>), TextEq}

ErrorOutputs == UNION {[1..n -> ErrTokens] : n \in 0..MaxErrTokens}

\* what the fix capability can answer: fixed code, fixed code inside
\* markers, fixed code followed by a marked region, or an exception
FixOutputs ==
    { <<CodeLine("y")>>,
      <<StartLine(<<"a">>), CodeLine("y"), EndLine(<<"a">>)>>,
      <<CodeLine("y"), StartLine(<<"b">>), CodeLine("y"), EndLine(<<"b">>)>> }

----------------------------------------------------------------------------
(* identify_error_blocks *)

LowerTok(c) ==
    CASE c = "A" -> "a"
      [] c = "B" -> "b"
      [] c = "_AGENT" -> "_agent"
      [] OTHER -> c

\* str.lower()
Lower(n) == [i \in 1..Len(n) |-> LowerTok(n[i])]

\* agent_name.lower(), without a trailing "_agent"
NormalizedName(n) ==
    IF Lower(n) # <<>> /\ Last(Lower(n)) = "_agent" THEN Front(Lower(n)) ELSE Lower(n)

\* a in b, for strings
Infix(a, b) ==
    \E i \in 0..(Len(b) - Len(a)) : SubSeq(b, i + 1, i + Len(a)) = a

\* index of the first element of s from position p on whose kind is one of
\* kinds (0: none)
FirstFrom(s, p, kinds) ==
    IF \E i \in p..Len(s) : s[i].t \in kinds
    THEN CHOOSE i \in p..Len(s) :
             s[i].t \in kinds /\ \A j \in p..(i - 1) : s[j].t \notin kinds
    ELSE 0

IsStart(line) == line.t = "start"

IsEnd(line) == line.t = "end"

\* === ERROR IN <name> ===
IsHeader == {"hdr"}

\* the lookahead ==\s+ succeeds inside the token: the next header, or text
\* holding "== "
EndsBody == {"hdr", "txteq"}

RECURSIVE ErrorMatchesFrom(_, _)
\* re.findall of the section pattern from token p on: the body of a section
\* runs to the first "== " that follows, which is inside the next header
\* unless the text holds one before it; a header that is cut this way is
\* not matched as a section
ErrorMatchesFrom(err, p) ==
    LET h == FirstFrom(err, p, IsHeader)
        e == IF h = 0 THEN 0 ELSE FirstFrom(err, h + 1, EndsBody)
    IN  IF h = 0 THEN <<>>
        ELSE IF e = 0 THEN <<err[h].n>>
        ELSE <<err[h].n>> \o ErrorMatchesFrom(err, e + 1)

\* the names of the sections re.findall returns
ErrorMatches(err) == ErrorMatchesFrom(err, 1)

\* blocks[name] = block, in a dict that keeps the place of a key it has
PutBlock(blocks, name, block) ==
    IF \E k \in 1..Len(blocks) : blocks[k].name = name
    THEN [k \in 1..Len(blocks) |->
             IF blocks[k].name = name THEN [name |-> name, block |-> block]
             ELSE blocks[k]]
    ELSE Append(blocks, [name |-> name, block |-> block])

RECURSIVE FindBlocks(_, _, _)
\* re.finditer of the region pattern from line p on: from the first start
\* marker to the first end marker after it, whatever step that one names
FindBlocks(c, p, blocks) ==
    LET i == FirstFrom(c, p, {"start"})
        j == IF i = 0 THEN 0 ELSE FirstFrom(c, i + 1, {"end"})
    IN  IF i = 0 \/ j = 0 THEN blocks
        ELSE FindBlocks(c, j + 1, PutBlock(blocks, Lower(c[i].n), SubSeq(c, i, j)))

\* the blocks dict, in insertion order
Blocks(c) == FindBlocks(c, 1, <<>>)

BlockNames(blocks) == {blocks[k].name : k \in 1..Len(blocks)}

BlockOf(blocks, name) ==
    blocks[CHOOSE k \in 1..Len(blocks) : blocks[k].name = name].block

\* FuzzyIndex without the comparison of names: the first block not matched
FuzzyIndexAnyName(blocks, matched, normalized) ==
    LET Fits(k) == blocks[k].name \notin matched
    IN  IF \E k \in 1..Len(blocks) : Fits(k)
        THEN CHOOSE k \in 1..Len(blocks) : Fits(k) /\ \A l \in 1..(k - 1) : ~Fits(l)
        ELSE 0

\* the fuzzy match: the first block not matched before whose name holds
\* the section's name or is held by it (0: none)
FuzzyIndex(blocks, matched, normalized) ==
    LET Fits(k) == /\ blocks[k].name \notin matched
                   /\ \/ Infix(normalized, blocks[k].name)
                      \/ Infix(blocks[k].name, normalized)
    IN  IF \E k \in 1..Len(blocks) : Fits(k)
        THEN CHOOSE k \in 1..Len(blocks) : Fits(k) /\ \A l \in 1..(k - 1) : ~Fits(l)
        ELSE 0

RECURSIVE MatchErrors(_, _, _, _)
\* the loop over error_matches; section is the name the error section gave
MatchErrors(matches, blocks, matched, faulty) ==
    IF matches = <<>> THEN faulty
    ELSE LET normalized == NormalizedName(Head(matches))
             k == FuzzyIndex(blocks, matched, normalized)
         IN  IF normalized \in BlockNames(blocks)
             THEN MatchErrors(Tail(matches), blocks, matched \cup {normalized},
                      Append(faulty, [name |-> normalized,
                                      block |-> BlockOf(blocks, normalized),
                                      section |-> Head(matches)]))
             ELSE IF k # 0
             THEN MatchErrors(Tail(matches), blocks, matched \cup {blocks[k].name},
                      Append(faulty, [name |-> blocks[k].name,
                                      block |-> blocks[k].block,
                                      section |-> Head(matches)]))
             ELSE MatchErrors(Tail(matches), blocks, matched, faulty)

\* IdentifyErrorBlocks without its early return: with no section found,
\* every block of the script is reported faulty
IdentifyEveryBlock(c, err) ==
    IF ErrorMatches(err) = <<>>
    THEN [k \in 1..Len(Blocks(c)) |->
             [name |-> Blocks(c)[k].name, block |-> Blocks(c)[k].block, section |-> <<>>]]
    ELSE MatchErrors(ErrorMatches(err), Blocks(c), {}, <<>>)

\* identify_error_blocks(code, error_output)
IdentifyErrorBlocks(c, err) ==
    IF ErrorMatches(err) = <<>> THEN <<>>
    ELSE MatchErrors(ErrorMatches(err), Blocks(c), {}, <<>>)

----------------------------------------------------------------------------
(* fix_code_with_dspy *)

\* code.replace("```python", "").replace("```", ""): the fence goes, its
\* line break stays
StripFences(c) ==
    [i \in 1..Len(c) |-> IF c[i].t = "fence" THEN BlankLine ELSE c[i]]

RECURSIVE LStripBlank(_)
LStripBlank(c) ==
    IF c # <<>> /\ Head(c).t = "blank" THEN LStripBlank(Tail(c)) ELSE c

RECURSIVE RStripBlank(_)
RStripBlank(c) ==
    IF c # <<>> /\ Last(c).t = "blank" THEN RStripBlank(Front(c)) ELSE c

\* str.strip() of a text of several lines
StripBlank(c) == RStripBlank(LStripBlank(c))

\* the text between the first start marker and the first end marker after
\* it, stripped; the text itself when there is no such pair
InnerOf(c) ==
    LET i == FirstFrom(c, 1, {"start"})
        j == IF i = 0 THEN 0 ELSE FirstFrom(c, i + 1, {"end"})
    IN  IF i = 0 \/ j = 0 THEN c ELSE StripBlank(SubSeq(c, i + 1, j - 1))

\* inner_code: the interior of a faulty block
InnerCode(block) == InnerOf(block)

\* fixed_inner_code: the capability's output, stripped, and reduced to the
\* interior of its markers when it starts with "#" and holds a start marker
FixedInnerCode(out) ==
    LET fixed == StripBlank(out)
    IN  IF fixed # <<>> /\ IsMarker(Head(fixed)) /\ \E i \in 1..Len(fixed) : IsStart(fixed[i])
        THEN InnerOf(fixed)
        ELSE fixed

\* f"{start_marker}\n\n{fixed_inner_code}\n\n{end_marker}"
FixedBlock(block, inner) ==
    <<block[FirstFrom(block, 1, {"start"})], BlankLine>>
    \o (IF inner = <<>> THEN <<BlankLine>> ELSE inner)
    \o <<BlankLine, block[FirstFrom(block, 1, {"end"})]>>

RECURSIVE Replace(_, _, _)
\* str.replace(old, new): every occurrence, left to right
Replace(text, old, new) ==
    IF Len(text) < Len(old) \/ old = <<>> THEN text
    ELSE IF SubSeq(text, 1, Len(old)) = old
    THEN new \o Replace(SubSeq(text, Len(old) + 1, Len(text)), old, new)
    ELSE <<Head(text)>> \o Replace(Tail(text), old, new)

\* the streaming request is not running
ExecIdle ==
    /\ plan = [plan |-> <<>>, plan_instructions |-> [kind |-> "dict", value |-> <<>>]]
    /\ session_state = [user_id |-> 0, chat_id |-> 0]
    /\ dbMode = "ok"
    /\ usage_records = <<>>
    /\ db = NoWrites
    /\ agent_inputs = RegEmpty
    /\ plannerOutcome = "none"
    /\ epPc = "idle"
    /\ futures = <<>>
    /\ completed = <<>>
    /\ yielded = <<>>
    /\ streamPc = "idle"
    /\ events = <<>>

InitRepair ==
    /\ code \in Scripts
    /\ error \in ErrorOutputs
    /\ fixPc = "start"
    /\ faulty_blocks = <<>>
    /\ blockIdx = 0
    /\ result_code = <<>>
    /\ fixCalls = <<>>
    /\ returned = <<>>
    /\ fixResponse = NoResponse
    /\ ExecIdle
    /\ SessionIdle
    /\ CallIdle

\* faulty_blocks = identify_error_blocks(code, error), and the choice of
\* the whole-script path or the block-by-block path
Identify ==
    /\ fixPc = "start"
    /\ faulty_blocks' = IdentifyErrorBlocks(code, error)
    /\ IF faulty_blocks' = <<>>
       THEN /\ fixPc' = "whole"
            /\ UNCHANGED <<result_code, blockIdx>>
       ELSE /\ fixPc' = "blocks"
            /\ result_code' = StripFences(code)
            /\ blockIdx' = 1
    /\ UNCHANGED <<code, error, fixCalls, returned, fixResponse>>
    /\ UNCHANGED nonRepairVars

\* the whole script goes to the fix capability and its answer is returned
FixWhole ==
    /\ fixPc = "whole"
    /\ \E out \in FixOutputs :
          /\ fixCalls' = Append(fixCalls,
                 [faulty_code |-> code, output |-> out, raised |-> FALSE,
                  section |-> <<>>])
          /\ returned' = out
    /\ fixPc' = "returned"
    /\ UNCHANGED <<code, error, faulty_blocks, blockIdx, result_code, fixResponse>>
    /\ UNCHANGED nonRepairVars

\* the fix capability raises on the whole script: the exception leaves
\* fix_code_with_dspy
FixWholeRaises ==
    /\ fixPc = "whole"
    /\ fixCalls' = Append(fixCalls,
           [faulty_code |-> code, output |-> <<>>, raised |-> TRUE,
            section |-> <<>>])
    /\ fixPc' = "raised"
    /\ UNCHANGED <<code, error, faulty_blocks, blockIdx, result_code, returned, fixResponse>>
    /\ UNCHANGED nonRepairVars

\* one pass of the loop over faulty_blocks: the interior goes to the fix
\* capability and the rebuilt block replaces the block in result_code
FixBlock ==
    /\ fixPc = "blocks"
    /\ blockIdx <= Len(faulty_blocks)
    /\ LET fb == faulty_blocks[blockIdx]
       IN  \E out \in FixOutputs :
              /\ fixCalls' = Append(fixCalls,
                     [faulty_code |-> InnerCode(fb.block), output |-> out,
                      raised |-> FALSE, section |-> fb.section])
              /\ result_code' = Replace(result_code, fb.block,
                                        FixedBlock(fb.block, FixedInnerCode(out)))
    /\ blockIdx' = blockIdx + 1
    /\ UNCHANGED <<code, error, fixPc, faulty_blocks, returned, fixResponse>>
    /\ UNCHANGED nonRepairVars

\* the fix capability raises on a block: logged, and the loop goes on
FixBlockRaises ==
    /\ fixPc = "blocks"
    /\ blockIdx <= Len(faulty_blocks)
    /\ fixCalls' = Append(fixCalls,
           [faulty_code |-> InnerCode(faulty_blocks[blockIdx].block),
            output |-> <<>>, raised |-> TRUE,
            section |-> faulty_blocks[blockIdx].section])
    /\ blockIdx' = blockIdx + 1
    /\ UNCHANGED <<code, error, fixPc, faulty_blocks, result_code, returned, fixResponse>>
    /\ UNCHANGED nonRepairVars

\* return result_code
ReturnResult ==
    /\ fixPc = "blocks"
    /\ blockIdx > Len(faulty_blocks)
    /\ returned' = result_code
    /\ fixPc' = "returned"
    /\ UNCHANGED <<code, error, faulty_blocks, blockIdx, result_code, fixCalls, fixResponse>>
    /\ UNCHANGED nonRepairVars

\* format_code_block(fixed_code): the formatter is applied to the script;
\* the value is kept as the formatter's argument
FormatCodeBlock(c) == [format_code_block |-> c]

\* fix_code: {"fixed_code": format_code_block(fixed_code)}, with no "error"
\* key
Respond ==
    /\ fixPc = "returned"
    /\ fixResponse = NoResponse
    /\ fixResponse' = [kind |-> "fixed", fixed_code |-> FormatCodeBlock(returned),
                    error |-> FALSE]
    /\ UNCHANGED <<code, error, fixPc, faulty_blocks, blockIdx, result_code,
                   fixCalls, returned>>
    /\ UNCHANGED nonRepairVars

\* fix_code: an exception out of fix_code_with_dspy or out of the formatter
\* is answered with the request's code and an "error" message
RespondFallback ==
    /\ fixPc \in {"raised", "returned"}
    /\ fixResponse = NoResponse
    /\ fixResponse' = [kind |-> "fallback", fixed_code |-> code, error |-> TRUE]
    /\ UNCHANGED <<code, error, fixPc, faulty_blocks, blockIdx, result_code,
                   fixCalls, returned>>
    /\ UNCHANGED nonRepairVars

NextRepair ==
    \/ Identify
    \/ FixWhole
    \/ FixWholeRaises
    \/ FixBlock
    \/ FixBlockRaises
    \/ ReturnResult
    \/ Respond
    \/ RespondFallback

SpecRepair == InitRepair /\ [][NextRepair]_vars

----------------------------------------------------------------------------
(* Claims about fix_code_with_dspy *)

\* the marker lines of a text, in their order
MarkersOf(c) == SelectSeq(c, IsMarker)

\* C7: the returned script has the markers of the input script: the same
\* ones, as many, in the same order.
C7_MarkersPreserved ==
    fixPc = "returned" => MarkersOf(returned) = MarkersOf(code)

\* C8: when one region was repaired, the returned script is the input
\* script with only the text between that region's markers replaced: what
\* precedes the start marker and what follows the end marker is unchanged.
C8_OutsideUnchanged ==
    (fixPc = "returned" /\ Len(faulty_blocks) = 1 /\ ~fixCalls[1].raised) =>
        \E i \in 1..Len(code) : \E j \in i..Len(code) :
            LET post == Len(code) - j
            IN  /\ SubSeq(code, i, j) = faulty_blocks[1].block
                /\ Len(returned) >= (i - 1) + 2 + post
                /\ SubSeq(returned, 1, i) = SubSeq(code, 1, i)
                /\ SubSeq(returned, Len(returned) - post, Len(returned))
                      = SubSeq(code, j, Len(code))

\* the name in the start marker of a block
StartName(block) == Lower(Head(block).n)

\* C9 as claimed: a region is selected for an error section only when its
\* markers carry the section's step name, case and "_agent" suffix ignored.
C9_OnlyNamedRegion ==
    \A k \in 1..Len(faulty_blocks) :
        NormalizedName(StartName(faulty_blocks[k].block))
            = NormalizedName(faulty_blocks[k].section)

\* C9 amended: the region selected for an error section is a region of the
\* script whose start marker carries the section's step name (lower-cased,
\* "_agent" suffix removed) or, only when no region carries that name, the
\* first region in script order, not selected before, whose name holds that
\* name or is held by it; and the fix capability is given the interior of
\* that region, never its markers.
C9_NamedOrContainingRegion ==
    \A k \in 1..Len(faulty_blocks) :
        LET fb == faulty_blocks[k]
            want == NormalizedName(fb.section)
            regions == Blocks(code)
            before == {faulty_blocks[l].name : l \in 1..(k - 1)}
            Related(n) == Infix(want, n) \/ Infix(n, want)
        IN  /\ \E r \in 1..Len(regions) :
                  /\ regions[r].block = fb.block
                  /\ regions[r].name = fb.name
                  /\ StartName(fb.block) = fb.name
                  /\ \/ fb.name = want
                     \/ /\ \A q \in 1..Len(regions) : regions[q].name # want
                        /\ Related(fb.name)
                        /\ fb.name \notin before
                        /\ \A q \in 1..(r - 1) :
                              regions[q].name \in before \/ ~Related(regions[q].name)
            /\ k <= Len(fixCalls) =>
                  /\ fixCalls[k].section = fb.section
                  /\ fixCalls[k].faulty_code = SubSeq(fb.block, 2, Len(fb.block) - 1)
                  /\ \A i \in 1..Len(fixCalls[k].faulty_code) :
                        IsEnd(fixCalls[k].faulty_code[i]) = FALSE

\* C9 happens: an error in B_AGENT against a script with the regions of a
\* and b; the interior of b alone went to the fix capability and the region
\* of a is as it was.
C9_Witness ==
    /\ code = Region(<<"a">>) \o Region(<<"b">>)
    /\ error = <<Header(<<"B", "_AGENT">>)>>
    /\ fixPc = "returned"
    /\ Len(fixCalls) = 1
    /\ fixCalls[1].faulty_code = <<CodeLine("x")>>
    /\ faulty_blocks[1].name = <<"b">>
    /\ SubSeq(returned, 1, 3) = Region(<<"a">>)
    /\ returned # code

\* the error output holds no "=== ERROR IN <STEP> ===" section
NoSection(err) == \A i \in 1..Len(err) : err[i].t \notin IsHeader

\* C10: without an error section, no block is singled out, the fix
\* capability is called once, with the whole script, and what it answers is
\* what is returned.
C10_WholeScriptOnce ==
    NoSection(error) =>
        /\ faulty_blocks = <<>>
        /\ fixPc \in {"start", "whole", "returned", "raised"}
        /\ Len(fixCalls) <= 1
        /\ fixPc \in {"returned", "raised"} =>
              /\ Len(fixCalls) = 1
              /\ fixCalls[1].faulty_code = code
        /\ fixPc = "returned" =>
              /\ ~fixCalls[1].raised
              /\ returned = fixCalls[1].output

\* C10 happens: an error output of plain text against a script of two
\* regions; the capability's answer to the whole script was returned.
C10_Witness ==
    /\ error = <<TextEq>>
    /\ code = Region(<<"a">>) \o Region(<<"b">>)
    /\ fixPc = "returned"
    /\ Len(fixCalls) = 1
    /\ fixCalls[1].faulty_code = code
    /\ returned = <<CodeLine("y")>>

\* a block of faulty_blocks whose call to the fix capability raised
FailedBlocks == {k \in 1..Len(faulty_blocks) :
                    k <= Len(fixCalls) /\ fixCalls[k].raised}

\* C11: when the fix capability raised for a faulty region, fix_code's
\* answer holds that region as it was, every faulty region went to the
\* capability, and the answer carries the "error" flag.
C11_FailureFlagged ==
    (fixResponse # NoResponse /\ faulty_blocks # <<>> /\ FailedBlocks # {}) =>
        /\ Len(fixCalls) = Len(faulty_blocks)
        /\ \A k \in FailedBlocks :
              \/ fixResponse.kind = "fallback"
              \/ Infix(faulty_blocks[k].block, returned)
        /\ fixResponse.error

\* C24: when fix_code_with_dspy has returned along its block-by-block
\* path, no two of its calls of the fix capability were for the same
\* region, and the rebuilt block of every call that gave a fix is in the
\* returned script.
C24_OnceForEachRegion ==
    (fixPc = "returned" /\ faulty_blocks # <<>>) =>
        /\ \A k, l \in 1..Len(faulty_blocks) :
               k # l => faulty_blocks[k].name # faulty_blocks[l].name
        /\ \A k \in 1..Len(fixCalls) :
               ~fixCalls[k].raised =>
                   Infix(FixedBlock(faulty_blocks[k].block,
                                    FixedInnerCode(fixCalls[k].output)),
                         returned)

----------------------------------------------------------------------------
(* AppState and the SessionManager it delegates to.  A session record is a  *)
(* dict that callers hold by reference and change in place, so records and  *)
(* model configurations live in heaps and are named by their references.    *)

\* time a session lives, in ticks of the clock
SESSION_TTL == 2

\* retrieval handles built over a dataset for the record that owns them
Retrievers(dataset, ref) == [dataset |-> dataset, owner |-> ref]

\* the store as one value
Store == [sessions |-> sessions, records |-> records, configs |-> configs]

\* the record of a session is older than the TTL; age is the time since
\* the record was created
Expired(st, sid) ==
    st.sessions[sid] # 0 /\ st.records[st.sessions[sid]].age >= SESSION_TTL

\* NewConfigRef that hands every session the configuration object of the
\* application
NewConfigRefShared(st) == AppConfigRef

\* the configuration of a new session: an object of its own
NewConfigRef(st) == Len(st.configs) + 1

\* a new session: default dataset, handles of its own over it, a copy of the
\* application's configuration, no user and no chat
NewRecord(st, sid) ==
    [sid |-> sid, alive |-> TRUE, current_df |-> "default",
     retrievers |-> Retrievers("default", Len(st.records) + 1),
     model_config |-> NewConfigRef(st), user_id |-> 0, chat_id |-> 0,
     age |-> 0]

\* a record that was dropped: nothing reads it again, and what it held is
\* not kept
Dropped(rec) ==
    [rec EXCEPT !.alive = FALSE, !.current_df = "default",
                !.retrievers = Retrievers("default", 0),
                !.user_id = 0, !.chat_id = 0, !.age = 0]

\* the record of a session is dropped: its handles die with it
Evict(st, sid) ==
    IF st.sessions[sid] = 0 THEN st
    ELSE LET ref == st.sessions[sid]
             cfg == st.records[ref].model_config
         IN  [sessions |-> [st.sessions EXCEPT ![sid] = 0],
              records |-> [st.records EXCEPT ![ref] = Dropped(@)],
              configs |-> IF cfg > AppConfigRef
                          THEN [st.configs EXCEPT ![cfg] = DEFAULT_MODEL_CONFIG]
                          ELSE st.configs]

\* a record is made for the session and takes the place of any other
Create(st, sid) ==
    LET ev == Evict(st, sid)
    IN  [sessions |-> [ev.sessions EXCEPT ![sid] = Len(st.records) + 1],
         records |-> Append(ev.records, NewRecord(st, sid)),
         configs |-> IF NewConfigRef(st) > Len(st.configs)
                     THEN Append(ev.configs, st.configs[AppConfigRef])
                     ELSE ev.configs]

\* GetOrCreate that makes a record on every call and leaves the one it
\* replaces in use
GetOrCreateAlways(st, sid) ==
    [sessions |-> [st.sessions EXCEPT ![sid] = Len(st.records) + 1],
     records |-> Append(st.records, NewRecord(st, sid)),
     configs |-> Append(st.configs, st.configs[AppConfigRef])]

\* GetOrCreate that never looks at the age of a record
GetOrCreateNoExpiry(st, sid) ==
    IF st.sessions[sid] # 0 THEN st ELSE Create(st, sid)

\* SessionManager.get_session_state: the live record of the session, or a
\* new one when there is none or it has expired
GetOrCreate(st, sid) ==
    IF st.sessions[sid] # 0 /\ ~Expired(st, sid) THEN st ELSE Create(st, sid)

\* room for the records a call makes
Room(st, sid) == Len(GetOrCreate(st, sid).records) <= MaxRecords

InitSession ==
    /\ SessionIdle
    /\ ExecIdle
    /\ RepairIdle
    /\ CallIdle

\* chat_with_agent / chat_with_all: session_state = get_session_state(id)
GetSessionState(r, sid) ==
    /\ held[r] = 0
    /\ Room(Store, sid)
    /\ LET st == GetOrCreate(Store, sid)
       IN  /\ sessions' = st.sessions
           /\ records' = st.records
           /\ configs' = st.configs
           /\ held' = [held EXCEPT ![r] = st.sessions[sid]]
    /\ UNCHANGED nonSessionVars

\* _update_session_from_query_params: chat_id and user_id of the query are
\* written into the dict the request holds; the request then goes on with
\* that dict and is followed no further
UpdateSessionFromQueryParams(r, chat, user) ==
    /\ held[r] # 0
    /\ records' = IF records[held[r]].alive
                  THEN [records EXCEPT
                           ![held[r]].chat_id = IF chat # 0 THEN chat ELSE @,
                           ![held[r]].user_id = IF user # 0 THEN user ELSE @]
                  ELSE records
    /\ held' = [held EXCEPT ![r] = 0]
    /\ UNCHANGED <<sessions, configs>>
    /\ UNCHANGED nonSessionVars

\* update_session_dataset: the session's dataset is replaced and its
\* handles are rebuilt over it
UpdateSessionDataset(sid, d) ==
    /\ Room(Store, sid)
    /\ LET st == GetOrCreate(Store, sid)
           ref == st.sessions[sid]
       IN  /\ sessions' = st.sessions
           /\ records' = [st.records EXCEPT ![ref].current_df = d,
                                            ![ref].retrievers = Retrievers(d, ref)]
           /\ configs' = st.configs
    /\ UNCHANGED held
    /\ UNCHANGED nonSessionVars

\* set_session_user: a user, and possibly a chat, are bound to the session
SetSessionUser(sid, user, chat) ==
    /\ Room(Store, sid)
    /\ LET st == GetOrCreate(Store, sid)
           ref == st.sessions[sid]
       IN  /\ sessions' = st.sessions
           /\ records' = [st.records EXCEPT ![ref].user_id = user,
                                            ![ref].chat_id = chat]
           /\ configs' = st.configs
    /\ UNCHANGED held
    /\ UNCHANGED nonSessionVars

\* a change of the session's model configuration, made in place
SetModelConfig(sid, value) ==
    /\ Room(Store, sid)
    /\ LET st == GetOrCreate(Store, sid)
           ref == st.sessions[sid]
       IN  /\ sessions' = st.sessions
           /\ records' = st.records
           /\ configs' = [st.configs EXCEPT ![st.records[ref].model_config] = value]
    /\ UNCHANGED held
    /\ UNCHANGED nonSessionVars

\* reset_session_to_default / clear_session_state: the record is dropped
ResetSession(sid) ==
    /\ sessions[sid] # 0
    /\ sessions' = Evict(Store, sid).sessions
    /\ records' = Evict(Store, sid).records
    /\ configs' = Evict(Store, sid).configs
    /\ UNCHANGED held
    /\ UNCHANGED nonSessionVars

\* the periodic sweep: every expired record is dropped
Sweep ==
    /\ \E sid \in SessionIds : Expired(Store, sid)
    /\ LET Gone(k) == \E sid \in SessionIds :
                          sessions[sid] = k /\ Expired(Store, sid)
       IN  /\ sessions' = [sid \in SessionIds |->
                              IF Expired(Store, sid) THEN 0 ELSE sessions[sid]]
           /\ records' = [k \in 1..Len(records) |->
                             IF Gone(k) THEN Dropped(records[k]) ELSE records[k]]
           /\ configs' = [c \in 1..Len(configs) |->
                             IF \E k \in 1..Len(records) :
                                   Gone(k) /\ records[k].model_config = c
                                           /\ c > AppConfigRef
                             THEN DEFAULT_MODEL_CONFIG ELSE configs[c]]
    /\ UNCHANGED held
    /\ UNCHANGED nonSessionVars

\* time passes: every record in use is one tick older (an age past the TTL
\* is not told from the TTL)
Tick ==
    /\ \E k \in 1..Len(records) : records[k].alive /\ records[k].age < SESSION_TTL
    /\ records' = [k \in 1..Len(records) |->
                      IF records[k].alive /\ records[k].age < SESSION_TTL
                      THEN [records[k] EXCEPT !.age = @ + 1]
                      ELSE records[k]]
    /\ UNCHANGED <<sessions, configs, held>>
    /\ UNCHANGED nonSessionVars

\* datasets are the default one and an uploaded one; ids of users and chats are
\* 0 (none) and 1; a client sets the default configuration or another one
NextSession ==
    \/ \E r \in Requests, sid \in SessionIds : GetSessionState(r, sid)
    \/ \E r \in Requests, chat \in {0, 1}, user \in {0, 1} :
          UpdateSessionFromQueryParams(r, chat, user)
    \/ \E sid \in SessionIds, d \in {"default", "d1"} : UpdateSessionDataset(sid, d)
    \/ \E sid \in SessionIds, user \in {0, 1}, chat \in {0, 1} :
          SetSessionUser(sid, user, chat)
    \/ \E sid \in SessionIds,
          value \in {DEFAULT_MODEL_CONFIG,
                     [provider |-> "gemini", model |-> "gemini-1.5-pro"]} :
          SetModelConfig(sid, value)
    \/ \E sid \in SessionIds : ResetSession(sid)
    \/ Sweep
    \/ Tick

SpecSession == InitSession /\ [][NextSession]_vars

----------------------------------------------------------------------------
(* Claims about the sessions *)

\* C12: a request that asks for the state of a session gets, while the
\* session's record is younger than the TTL and was not reset, that same
\* record, with the dataset and the handles it has at that moment (the
\* default ones, or those update_session_dataset set); otherwise it gets a
\* record made for it, bound to the default dataset, with handles built for
\* that record.
C12_SameBeforeExpiryFreshAfter ==
    [][\A r \in Requests : (held[r] = 0 /\ held'[r] # 0) =>
          LET got == records'[held'[r]]
              sid == got.sid
              old == sessions[sid]
          IN  /\ sessions'[sid] = held'[r]
              /\ got.alive
              /\ IF old # 0 /\ records[old].age < SESSION_TTL
                 THEN /\ held'[r] = old
                      /\ got.current_df = records[old].current_df
                      /\ got.retrievers = records[old].retrievers
                 ELSE /\ held'[r] > Len(records)
                      /\ got.current_df = "default"
                      /\ got.retrievers = Retrievers("default", held'[r])
                      /\ old # 0 => ~records'[old].alive]_vars

\* C12 happens: two requests for s1, a tick apart, hold the same record, and
\* its dataset is the one an update set.
C12_Witness ==
    /\ held["r1"] # 0
    /\ held["r1"] = held["r2"]
    /\ records[held["r1"]].sid = "s1"
    /\ records[held["r1"]].alive
    /\ records[held["r1"]].age = 1
    /\ records[held["r1"]].current_df = "d1"
    /\ records[held["r1"]].retrievers = Retrievers("d1", held["r1"])

\* the records in use for a session
LiveRecords(sid) ==
    {k \in 1..Len(records) : records[k].alive /\ records[k].sid = sid}

\* C13: a session id never has two records in use, the one it has is the
\* one the store maps it to, and two requests that hold records in use of
\* the same session hold the same record.
C13_OneLiveRecord ==
    /\ \A sid \in SessionIds :
          /\ Cardinality(LiveRecords(sid)) <= 1
          /\ sessions[sid] # 0 => LiveRecords(sid) = {sessions[sid]}
    /\ \A r1, r2 \in Requests :
          (/\ held[r1] # 0 /\ held[r2] # 0
           /\ records[held[r1]].alive /\ records[held[r2]].alive
           /\ records[held[r1]].sid = records[held[r2]].sid)
          => held[r1] = held[r2]

\* C13 happens: both requests came first for s2 and hold its one record.
C13_Witness ==
    /\ Len(records) = 1
    /\ records[1].sid = "s2"
    /\ held["r1"] = 1
    /\ held["r2"] = 1
    /\ sessions["s2"] = 1

\* what a session shows: its record, but for its age, and the value of its
\* model configuration
Shown(st, sid) ==
    IF st.sessions[sid] = 0 THEN [none |-> TRUE]
    ELSE [record |-> [st.records[st.sessions[sid]] EXCEPT !.age = 0],
          config |-> st.configs[st.records[st.sessions[sid]].model_config]]

\* C14: a step that drops no session changes what at most one session
\* shows, and no step changes the process-wide default configuration; no
\* two sessions have the same configuration object or the same handles.
C14_NoSharedSubObject ==
    [][/\ configs'[DefaultConfigRef] = configs[DefaultConfigRef]
       /\ (\A sid \in SessionIds : sessions[sid] # 0 => sessions'[sid] # 0) =>
             Cardinality({sid \in SessionIds :
                 Shown([sessions |-> sessions', records |-> records',
                        configs |-> configs'], sid) # Shown(Store, sid)}) <= 1
       /\ \A a, b \in SessionIds :
             (a # b /\ sessions'[a] # 0 /\ sessions'[b] # 0) =>
                 /\ records'[sessions'[a]].model_config
                       # records'[sessions'[b]].model_config
                 /\ records'[sessions'[a]].retrievers.owner
                       # records'[sessions'[b]].retrievers.owner]_vars

\* C14 happens: s1 got a dataset, a user and a model configuration while s2
\* has the default dataset, no user and the default configuration.
C14_Witness ==
    /\ sessions["s1"] # 0
    /\ sessions["s2"] # 0
    /\ records[sessions["s1"]].current_df = "d1"
    /\ records[sessions["s1"]].user_id = 1
    /\ configs[records[sessions["s1"]].model_config] # DEFAULT_MODEL_CONFIG
    /\ records[sessions["s2"]].current_df = "default"
    /\ records[sessions["s2"]].user_id = 0
    /\ configs[records[sessions["s2"]].model_config] = DEFAULT_MODEL_CONFIG
    /\ configs[DefaultConfigRef] = DEFAULT_MODEL_CONFIG

\* ------------------------------------------------------------------------
\* Token estimation: _estimate_tokens and the usage tracking of the
\* non-streaming path count tokens with the manager's tokenizer and fall
\* back to a word count when it raises.
\* ------------------------------------------------------------------------

\* DEFAULT_TOKEN_RATIO, 1.5 tokens a word, as the fraction 3/2
DEFAULT_TOKEN_RATIO == [num |-> 3, den |-> 2]

\* the texts whose tokens are estimated; their characters are a letter, a
\* blank, and the special token "<|endoftext|>" that tiktoken's encode
\* refuses with a ValueError
Texts ==
    UNION {[1..n -> {"a", " ", "<|endoftext|>"}] : n \in 0..MaxTextLen}

\* len(text.split()): the number of maximal runs of non-blank characters
WordCount(text) ==
    Cardinality({i \in 1..Len(text) :
                    text[i] # " " /\ (i = 1 \/ text[i - 1] = " ")})

\* len(tokenizer.encode(text)) raises: tiktoken on a special token, and
\* always with SimpleTokenizer, whose encode returns an int that has no len
EncodeRaises(tokenizer, text) ==
    \/ tokenizer = "SimpleTokenizer"
    \/ \E i \in 1..Len(text) : text[i] = "<|endoftext|>"

\* int(words * DEFAULT_TOKEN_RATIO)
FallbackTokens(text) ==
    (WordCount(text) * DEFAULT_TOKEN_RATIO.num) \div DEFAULT_TOKEN_RATIO.den

\* a version that keeps the exact prompt count when only the output raises
estimate_tokens_mixed(tokenizer, input_text, output_text) ==
    LET prompt == IF EncodeRaises(tokenizer, input_text)
                  THEN FallbackTokens(input_text) ELSE Len(input_text)
        completion == IF EncodeRaises(tokenizer, output_text)
                      THEN FallbackTokens(output_text) ELSE Len(output_text)
    IN  [prompt |-> prompt, completion |-> completion,
         total |-> prompt + completion]

\* _estimate_tokens: both counts exact (tiktoken gives one token for each
\* character here), or both from the word count when either encode raises
estimate_tokens(tokenizer, input_text, output_text) ==
    LET raises == \/ EncodeRaises(tokenizer, input_text)
                  \/ EncodeRaises(tokenizer, output_text)
        prompt == IF raises THEN FallbackTokens(input_text)
                  ELSE Len(input_text)
        completion == IF raises THEN FallbackTokens(output_text)
                      ELSE Len(output_text)
    IN  [prompt |-> prompt, completion |-> completion,
         total |-> prompt + completion]

\* ------------------------------------------------------------------------
\* auto_analyst.get_plan: attribute questions are planned without the
\* planner model.  A query is a sequence of words separated by one blank;
\* "how many" and "count of" are single entries of the sequence that no
\* \w+ matches.
\* ------------------------------------------------------------------------

\* the queries, over a vocabulary of ten words
Goals ==
    UNION {[1..n -> {"how many", "count of", "Green", "toyota", "vehicles",
                     "cars", "under", "$500", "from", "2015"}] :
              n \in 0..MaxGoalWords}

\* the word classes of the regular expressions: the alternations of
\* colours, makes and conditions, (cars|vehicles), \$?\d+, \$\d+, \d{4}
\* and \w+
Lexicon ==
    [colors |-> {"green", "red", "blue", "black", "white", "silver", "gray",
                 "yellow", "orange", "purple", "pink", "brown"},
     makes |-> {"toyota", "honda", "ford", "bmw", "mercedes", "audi",
                "tesla", "hyundai", "kia", "nissan", "chevrolet"},
     conditions |-> {"excellent", "good", "fair", "poor"},
     cars |-> {"cars", "vehicles"},
     number |-> {"$500", "2015"},
     dollars |-> {"$500"},
     year |-> {"2015"},
     word |-> {"green", "toyota", "vehicles", "cars", "under", "from",
               "2015"}]

\* query.lower()
LowerQuery(query) ==
    [i \in 1..Len(query) |-> IF query[i] = "Green" THEN "green" ELSE query[i]]

\* re.search(alt1|alt2|..., text): the words of the leftmost match, taking
\* the first alternative that matches there; <<>> when nothing matches.
\* An alternative is a sequence of word classes.
Search(alts, text) ==
    LET At(i, a) ==
            /\ i + Len(alts[a]) - 1 <= Len(text)
            /\ \A k \in 1..Len(alts[a]) : text[i + k - 1] \in alts[a][k]
        hits == {i \in 1..Len(text) : \E a \in 1..Len(alts) : At(i, a)}
    IN  IF hits = {} THEN <<>>
        ELSE LET i == CHOOSE h \in hits : \A g \in hits : h <= g
                 a == CHOOSE b \in 1..Len(alts) :
                          At(i, b) /\ \A c \in 1..(b - 1) : ~At(i, c)
             IN  SubSeq(text, i, i + Len(alts[a]) - 1)

\* detect_attribute_query: one of the attribute patterns is found in the
\* lower-cased query
detect_attribute_query(query) ==
    LET L == Lexicon
        HowMany == {"how many"}
        attribute_patterns ==
            << <<HowMany, L.colors, {"vehicles"}>>,
               <<{"count of"}, L.colors, L.cars>>,
               <<{"show me"}, L.colors, L.cars>>,
               <<HowMany, L.cars, {"cost", "are", "priced"},
                 {"less", "more", "under", "over"}, {"than"}, L.number>>,
               <<{"vehicles"}, {"under", "over"}, L.dollars>>,
               <<HowMany, L.makes, L.cars>>,
               <<{"count of"}, L.makes>>,
               <<HowMany, L.conditions, {"condition"}, L.cars>>,
               <<HowMany, L.cars, {"from"}, {"year"} \cup L.year>>,
               <<HowMany, L.cars, {"made", "manufactured"}, {"in"},
                 L.year>> >>
    IN  Search(attribute_patterns, LowerQuery(query)) # <<>>

\* the plan get_attribute_plan writes for a price: no case-insensitive
\* matching is asked for
PricePlan(op, value) ==
    [plan |-> <<"planner_data_viz_agent">>,
     plan_instructions |->
        [kind |-> "dict",
         value |-> [s \in {<<"planner_data_viz_agent">>} |->
            [create |-> <<"price_filtered_chart">>,
             use |-> <<"df">>,
             instruction |-> [attribute |-> "price", op |-> op,
                              value |-> value,
                              case_insensitive |-> FALSE]]]]]

\* the plan get_attribute_plan writes for a colour, make, condition or year
AttributePlan(type, value) ==
    [plan |-> <<"planner_data_viz_agent">>,
     plan_instructions |->
        [kind |-> "dict",
         value |-> [s \in {<<"planner_data_viz_agent">>} |->
            [create |-> <<type, "_filtered_chart">>,
             use |-> <<"df">>,
             instruction |-> [attribute |-> type, op |-> "=",
                              value |-> value,
                              case_insensitive |-> TRUE]]]]]

\* Python's None
None == [none |-> TRUE]

\* a version that searches the query as it was typed
get_attribute_plan_as_typed(query) ==
    LET L == Lexicon
        color_match == Search(<< <<{"how many"}, L.word \cup {"Green"},
                                   {"vehicles"}>> >>, query)
    IN  IF color_match # <<>>
        THEN AttributePlan("color", color_match[2])
        ELSE None

\* get_attribute_plan: the first of colour, make, condition and year that
\* is found decides the plan, then a price; None when nothing is found
get_attribute_plan(query) ==
    LET L == Lexicon
        text == LowerQuery(query)
        color_match ==
            Search(<< <<{"how many"}, L.word, {"vehicles"}>>,
                      <<{"show me"}, L.word, {"vehicles"}>>,
                      <<{"count of"}, L.word, L.cars>> >>, text)
        is_color == /\ color_match # <<>>
                    /\ color_match[2] \notin L.cars
                    /\ color_match[2] \in L.colors
        make_match == Search(<< <<{"how many"}, L.word, L.cars>> >>, text)
        is_make == make_match # <<>> /\ make_match[2] \in L.makes
        condition_match ==
            Search(<< <<L.conditions, {"condition"}>> >>, text)
        year_match == Search(<< <<{"from"}, L.year>>,
                                <<{"made"}, {"in"}, L.year>>,
                                <<{"manufactured"}, {"in"}, L.year>> >>, text)
        price_match == Search(<< <<{"under", "over"}, L.number>> >>, text)
    IN  CASE is_color -> AttributePlan("color", color_match[2])
          [] ~is_color /\ is_make -> AttributePlan("make", make_match[2])
          [] ~is_color /\ ~is_make /\ condition_match # <<>> ->
                AttributePlan("condition", condition_match[1])
          [] ~is_color /\ ~is_make /\ condition_match = <<>>
                /\ year_match # <<>> ->
                AttributePlan("year", year_match[Len(year_match)])
          [] ~is_color /\ ~is_make /\ condition_match = <<>>
                /\ year_match = <<>> /\ price_match # <<>> ->
                PricePlan(IF price_match[1] = "under" THEN "<" ELSE ">",
                          IF price_match[2] = "$500" THEN "500"
                          ELSE price_match[2])
          [] OTHER -> None

\* get_plan: the attribute plan when the query is an attribute question and
\* a plan could be written for it, else what one call of the planner gives
get_plan(query, planner_plan) ==
    IF detect_attribute_query(query) /\ get_attribute_plan(query) # None
    THEN [calls |-> 0, plan |-> get_attribute_plan(query)]
    ELSE [calls |-> 1, plan |-> planner_plan]

----------------------------------------------------------------------------
(* One call of get_plan or of _estimate_tokens on every input *)

InitCall ==
    /\ ExecIdle
    /\ RepairIdle
    /\ SessionIdle
    /\ reqs = <<>>
    /\ sess = [chat_id |-> 0, user_id |-> 0]
    /\ planned = [calls |-> 0, plan |-> <<>>]
    /\ estimate = [prompt |-> 0, completion |-> 0, total |-> 0]
    /\ \/ /\ goal \in Goals \ {<<>>}
          /\ texts = [tokenizer |-> "none", input_text |-> <<>>,
                      output_text |-> <<>>, called |-> FALSE]
       \/ /\ goal = <<>>
          \* the tokenizers AI_Manager.__init__ can install
          /\ texts \in [tokenizer : {"tiktoken", "SimpleTokenizer"},
                        input_text : Texts,
                        output_text : Texts, called : {FALSE}]

\* get_plan(goal) is called and the planner, if asked, answers
CallGetPlan ==
    /\ goal # <<>>
    /\ planned.plan = <<>>
    /\ \E p \in {q \in Plans : /\ "plan" \in DOMAIN q
                               /\ q.plan = <<"a">>
                               /\ q.plan_instructions.kind = "dict"} :
          planned' = get_plan(goal, p)
    /\ UNCHANGED <<goal, texts, estimate>>
    /\ UNCHANGED nonCallVars

\* _estimate_tokens(ai_manager, input_text, output_text) is called
CallEstimateTokens ==
    /\ texts.tokenizer # "none"
    /\ ~texts.called
    /\ texts' = [texts EXCEPT !.called = TRUE]
    /\ estimate' = estimate_tokens(texts.tokenizer, texts.input_text,
                                   texts.output_text)
    /\ UNCHANGED <<goal, planned>>
    /\ UNCHANGED nonCallVars

NextCall == CallGetPlan \/ CallEstimateTokens

SpecCall == InitCall /\ [][NextCall]_vars

----------------------------------------------------------------------------
(* Claims about token estimation and the planner bypass *)

\* the exact tokenizer raised on one of the two texts of the call
TokenizerRaised ==
    /\ texts.called
    /\ \/ EncodeRaises(texts.tokenizer, texts.input_text)
       \/ EncodeRaises(texts.tokenizer, texts.output_text)

\* both counts are int(wordCount * 1.5): the largest integer n with
\* 2n <= 3 * wordCount
BothFromFallback ==
    /\ 2 * estimate.prompt <= 3 * WordCount(texts.input_text)
    /\ 3 * WordCount(texts.input_text) < 2 * estimate.prompt + 2
    /\ 2 * estimate.completion <= 3 * WordCount(texts.output_text)
    /\ 3 * WordCount(texts.output_text) < 2 * estimate.completion + 2
    /\ estimate.total = estimate.prompt + estimate.completion

\* C16 as stated: when the exact tokenizer raises on either text both
\* counts come from the fallback int(wordCount * 1.5), and the prompt count
\* is positive whenever the input text is not empty.
C16_FallbackPositiveIfNonEmpty ==
    TokenizerRaised =>
        /\ BothFromFallback
        /\ (texts.input_text # <<>> => estimate.prompt > 0)

\* C16, amended: when the exact tokenizer raises on either text both counts
\* come from the fallback int(wordCount * 1.5), and the prompt count is
\* positive whenever the input text has a word, that is, a character that
\* is not white space.
C16_FallbackPositiveIfWord ==
    TokenizerRaised =>
        /\ BothFromFallback
        /\ (WordCount(texts.input_text) > 0 <=> estimate.prompt > 0)

\* C16 happens: tiktoken raised on the output only, on an input of two
\* words, and the prompt count is the fallback's 3, not the exact count.
C16_Witness ==
    /\ TokenizerRaised
    /\ texts.tokenizer = "tiktoken"
    /\ ~EncodeRaises(texts.tokenizer, texts.input_text)
    /\ texts.input_text = <<"a", " ", "a">>
    /\ estimate.prompt = 3

\* get_plan answered without the planner model
Bypassed == planned.plan # <<>> /\ planned.calls = 0

\* the plan names exactly one step, and its instruction map is a native
\* mapping keyed by that step alone whose entry has create, use and
\* instruction
OneStepShape(p) ==
    /\ "plan" \in DOMAIN p
    /\ Len(PlanList(p)) = 1
    /\ p.plan_instructions.kind = "dict"
    /\ DOMAIN PlanInstructions(p).value = {PlanList(p)[1]}
    /\ DOMAIN PlanInstructions(p).value[PlanList(p)[1]]
          = {"create", "use", "instruction"}

\* the instruction of the plan's only step
Instruction(p) == PlanInstructions(p).value[PlanList(p)[1]].instruction

\* C18 as stated: a goal that matches a bypass pattern and from which an
\* attribute value is extracted is planned without the planner model, as a
\* one-step plan in the shape of a model-produced one whose instruction
\* asks for case-insensitive filtering on the attribute; for every other
\* goal the planner model is invoked exactly once.
C18_BypassCaseInsensitive ==
    planned.plan # <<>> =>
        IF detect_attribute_query(goal) /\ get_attribute_plan(goal) # None
        THEN /\ planned.calls = 0
             /\ OneStepShape(planned.plan)
             /\ Instruction(planned.plan).case_insensitive
        ELSE planned.calls = 1

\* C18, amended: a goal that matches a bypass pattern and from which an
\* attribute value is extracted is planned without the planner model, as a
\* one-step plan in the shape of a model-produced one; its instruction asks
\* for case-insensitive filtering on a lower-cased word of the goal when
\* the attribute is a colour, a make, a condition or a year, and for a
\* numeric comparison with the amount, without case-insensitive matching,
\* when it is a price; for every other goal the planner model is invoked
\* exactly once.
C18_BypassShape ==
    planned.plan # <<>> =>
        IF detect_attribute_query(goal) /\ get_attribute_plan(goal) # None
        THEN /\ planned.calls = 0
             /\ OneStepShape(planned.plan)
             /\ LET ins == Instruction(planned.plan)
                IN  IF ins.attribute = "price"
                    THEN /\ ~ins.case_insensitive
                         /\ ins.op \in {"<", ">"}
                         /\ ins.value \in {"500", "2015"}
                    ELSE /\ ins.case_insensitive
                         /\ ins.op = "="
                         /\ ins.value \in Lexicon.colors \cup Lexicon.makes
                               \cup Lexicon.conditions \cup Lexicon.year
                         /\ \E i \in 1..Len(goal) :
                               LowerQuery(goal)[i] = ins.value
        ELSE planned.calls = 1

\* C18 happens: "how many Green vehicles" was planned without the planner
\* as a filter on color = 'green'.
C18_Witness ==
    /\ goal = <<"how many", "Green", "vehicles">>
    /\ Bypassed
    /\ Instruction(planned.plan).attribute = "color"
    /\ Instruction(planned.plan).value = "green"

----------------------------------------------------------------------------
(* Two /chat requests on one session id.  get_session_state gives both the  *)
(* same dict and the same auto_analyst, whose executor they share; each     *)
(* request runs its own _generate_streaming_responses and execute_plan.     *)
(* Request r1 sends chat_id=1 and r2 chat_id=2; user_id is the request's    *)
(* own (1, 2) or not an integer (-1).  Code between two awaits or yields    *)
(* runs without interruption on the event loop.                             *)

InitPair ==
    /\ ExecIdle
    /\ RepairIdle
    /\ SessionIdle
    /\ goal = <<>>
    /\ planned = [calls |-> 0, plan |-> <<>>]
    /\ texts = [tokenizer |-> "none", input_text |-> <<>>,
                output_text |-> <<>>, called |-> FALSE]
    /\ estimate = [prompt |-> 0, completion |-> 0, total |-> 0]
    /\ sess = [chat_id |-> 0, user_id |-> 0]
    /\ \E u1 \in {1, -1}, u2 \in {2, -1},
          p1, p2 \in {<<"a">>, <<"a", "b">>} :
          reqs = [r \in Requests |->
                    [chat |-> IF r = "r1" THEN 1 ELSE 2,
                     user |-> IF r = "r1" THEN u1 ELSE u2,
                     query |-> r,
                     plan_list |-> IF r = "r1" THEN p1 ELSE p2,
                     pc |-> "start",
                     futures |-> <<>>,
                     yielded |-> <<>>,
                     usage |-> <<>>]]

\* _update_session_from_query_params: chat_id is written, then user_id is
\* parsed and written, or the request is refused with status 400
PairUpdate(r) ==
    /\ reqs[r].pc = "start"
    /\ IF reqs[r].user = -1
       THEN /\ sess' = [sess EXCEPT !.chat_id = reqs[r].chat]
            /\ reqs' = [reqs EXCEPT ![r].pc = "rejected"]
       ELSE /\ sess' = [chat_id |-> reqs[r].chat, user_id |-> reqs[r].user]
            /\ reqs' = [reqs EXCEPT ![r].pc = "plan"]
    /\ UNCHANGED nonPairVars

\* a futures list kept on the shared auto_analyst: the request's list ends
\* with its own futures but starts with the other request's
SubmittedShared(rs, r) ==
    LET other == CHOOSE q \in Requests : q # r
    IN  rs[other].futures \o
        [i \in 1..Len(rs[r].plan_list) |->
            [agent_name |-> rs[r].plan_list[i],
             inputs |-> [goal |-> rs[r].query],
             status |-> "pending", result |-> <<>>]]

\* futures, the local list of execute_plan: one future for each step of
\* the request's plan, submitted with the request's inputs
Submitted(rs, r) ==
    [i \in 1..Len(rs[r].plan_list) |->
        [agent_name |-> rs[r].plan_list[i],
         inputs |-> [goal |-> rs[r].query],
         status |-> "pending", result |-> <<>>]]

\* the planner has answered: the plan event is sent, the planner's usage
\* record is made from the session dict, and execute_plan submits the steps
PairPlan(r) ==
    /\ reqs[r].pc = "plan"
    /\ reqs' = [reqs EXCEPT ![r].pc = "await",
                            ![r].usage = Track(@, sess, FALSE),
                            ![r].futures = Submitted(reqs, r)]
    /\ UNCHANGED sess
    /\ UNCHANGED nonPairVars

\* a worker of the shared pool runs execute_agent with the inputs it was
\* submitted with and sets the result of that submission's future
PairWorker(r, i) ==
    /\ i \in 1..Len(reqs[r].futures)
    /\ reqs[r].futures[i].status = "pending"
    /\ reqs' = [reqs EXCEPT
                  ![r].futures[i].status = "done",
                  ![r].futures[i].result =
                      [name |-> reqs[r].futures[i].agent_name,
                       answer_to |-> reqs[r].futures[i].inputs.goal]]
    /\ UNCHANGED sess
    /\ UNCHANGED nonPairVars

\* one pass of the request's result loop: the next future of its list is
\* awaited and its tuple yielded; the stream sends the event and makes the
\* step's usage record from the session dict
PairYield(r) ==
    /\ reqs[r].pc = "await"
    /\ LET idx == Len(reqs[r].yielded) + 1
           f == reqs[r].futures[idx]
       IN  /\ f.status = "done"
           /\ reqs' = [reqs EXCEPT
                         ![r].yielded = Append(@, [name |-> f.result.name,
                                                   inputs |-> f.inputs,
                                                   result |-> f.result]),
                         ![r].usage = Track(@, sess, TRUE),
                         ![r].pc = IF idx = Len(reqs[r].futures)
                                   THEN "done" ELSE "await"]
    /\ UNCHANGED sess
    /\ UNCHANGED nonPairVars

NextPair ==
    \/ \E r \in Requests : PairUpdate(r)
    \/ \E r \in Requests : PairPlan(r)
    \/ \E r \in Requests : \E i \in 1..Len(reqs[r].futures) : PairWorker(r, i)
    \/ \E r \in Requests : PairYield(r)

SpecPair == InitPair /\ [][NextPair]_vars

----------------------------------------------------------------------------
(* Claims about two requests on one session *)

\* C26: every tuple a request is yielded is the tuple of the step at that
\* position of its own plan, with the inputs built from its own query and
\* a result computed from those inputs; a request that has ended was
\* yielded as many tuples as its plan has steps.
C26_OwnTuplesOnly ==
    \A r \in Requests :
        /\ Len(reqs[r].yielded) <= Len(reqs[r].plan_list)
        /\ \A k \in 1..Len(reqs[r].yielded) :
              /\ reqs[r].yielded[k].name = reqs[r].plan_list[k]
              /\ reqs[r].yielded[k].inputs.goal = reqs[r].query
              /\ reqs[r].yielded[k].result.answer_to = reqs[r].query
        /\ reqs[r].pc = "done" =>
              Len(reqs[r].yielded) = Len(reqs[r].plan_list)

\* C26 happens: both requests are in the middle of a two-step plan, each
\* was yielded its first tuple and all four invocations have completed.
C26_Witness ==
    \A r \in Requests :
        /\ reqs[r].pc = "await"
        /\ Len(reqs[r].plan_list) = 2
        /\ Len(reqs[r].yielded) = 1
        /\ \A i \in 1..2 : reqs[r].futures[i].status = "done"

\* C27 as stated: when both requests supply a chat_id and a user_id, every
\* usage record made for a request carries the chat_id and the user_id
\* this same request supplied.
C27_OwnLinkage ==
    (\A q \in Requests : reqs[q].user # -1) =>
        \A r \in Requests :
            \A k \in 1..Len(reqs[r].usage) :
                /\ reqs[r].usage[k].chat_id = reqs[r].chat
                /\ reqs[r].usage[k].user_id = reqs[r].user

\* the requests that have run _update_session_from_query_params
Updated == {q \in Requests : reqs[q].pc # "start"}

\* C27, amended: every usage record made for a request carries a chat_id
\* supplied by a request of the session that has updated the session dict,
\* and a user_id supplied by one that was not refused; these are the
\* request's own as long as no other request has updated the session dict.
C27_LastWriterLinkage ==
    \A r \in Requests :
        \A k \in 1..Len(reqs[r].usage) :
            /\ reqs[r].usage[k].chat_id \in {reqs[q].chat : q \in Updated}
            /\ reqs[r].usage[k].user_id \in
                  {reqs[q].user : q \in Updated} \ {-1}
            /\ Updated = {r} =>
                  /\ reqs[r].usage[k].chat_id = reqs[r].chat
                  /\ reqs[r].usage[k].user_id = reqs[r].user

\* C27 happens: r1 has a record with its own ids and, after r2 updated the
\* session dict, a record with r2's ids.
C27_Witness ==
    /\ Len(reqs["r1"].usage) = 2
    /\ reqs["r1"].usage[1].user_id = 1
    /\ reqs["r1"].usage[1].chat_id = 1
    /\ reqs["r1"].usage[2].user_id = 2
    /\ reqs["r1"].usage[2].chat_id = 2

\* C28: the step in which a request is refused for its user_id leaves the
\* session dict as it was.
C28_RefusalLeavesSession ==
    [][(\E r \in Requests : reqs[r].pc = "start" /\ reqs'[r].pc = "rejected")
          => sess' = sess]_vars

====
